---- MODULE Spec2Model ----
(***************************************************************************)
(* The colony simulation store (gameStore, warmth variant): the tile grid, *)
(* the worker agents, the task queue, the wood counter and the tick.       *)
(* Source: src/unnamed/part_006 lines 693-1514 and src/src/types/index.ts. *)
(*                                                                         *)
(* Pure UI state (selection, multiSelection, contextMenuPos, buildMode,    *)
(* ignoreTileClicks) is not read by any engine operation and is left out;  *)
(* announcement timestamps (Date.now()) are left out as well.              *)
(***************************************************************************)
EXTENDS Integers, Sequences, FiniteSets, TLC

VARIABLES
    gridWidth, gridHeight,      \* grid dimensions
    map,                        \* [<<x, y>> -> tile type]
    agents,                     \* sequence of agent records, in list order
    taskQueue,                  \* sequence of task records
    wood,
    tickCount, isRunning,
    selectedBuildType,
    announcements,              \* sequence of [id, message], at most 5
    warmTiles,                  \* set of <<x, y>>
    taskIdCounter, announcementIdCounter, workerIdCounter,
    chops,                      \* history: number of tree -> grass chops
    builtCost,                  \* history: summed cost of the completed builds
    credited,                   \* history: [id -> wood refunded so far] of the
                                \*   tasks in the queue or held by an agent
    lastTick                    \* history: what the latest tick assigned and
                                \*   which tasks it removed from the system

vars == << gridWidth, gridHeight, map, agents, taskQueue, wood, tickCount,
           isRunning, selectedBuildType, announcements, warmTiles,
           taskIdCounter, announcementIdCounter, workerIdCounter,
           chops, builtCost, credited, lastTick >>

-----------------------------------------------------------------------------
(* Bounds of the model.  Two scopes are explored.  The first starts from a  *)
(* fresh game and lets the player build walls: enough tasks and ticks for  *)
(* an agent to wall itself off from its target.  The second starts from a  *)
(* game that was started and left running with an empty queue for          *)
(* StartTick ticks (ticks in which nothing but tickCount changes), so that *)
(* the ticks explored include tick 100, in which trees propagate and a     *)
(* worker can spawn; the player builds fireplaces.                         *)

\* a command adds a task only to a queue shorter than this
MaxQueue == 2
\* first scope: tasks created in one game, and ticks 1 .. MaxTicks
MaxTasks == 5
MaxTicks == 10
\* second scope: tasks created in one game, and ticks
\* StartTick + 1 .. StartTick + SettleTicks
SettleTasks == 4
StartTick == 93
SettleTicks == 12

\* a scope names the build types offered, the number of tasks created in one
\* game and the ticks explored; period 0 keeps tickCount as the code counts
\* it, a period p > 0 keeps it modulo p (tick reads tickCount only through
\* newTickCount % PROPAGATION_INTERVAL and newTickCount %
\* WORKER_SPAWN_INTERVAL, so p is a multiple of both)
Walls ==
    [ types |-> { "wall" }, tasks |-> MaxTasks, start |-> 0, ticks |-> MaxTicks,
      period |-> 0 ]
Settle ==
    [ types |-> { "fireplace" }, tasks |-> SettleTasks, start |-> StartTick,
      ticks |-> SettleTicks, period |-> 0 ]

\* grid sizes initializeGame is called with (width, height): App passes
\* floor(innerWidth / 32) and floor((innerHeight - 60) / 32), which is a grid
\* of no rows in a window less than 92 pixels high
Sizes == { <<3, 1>>, <<3, 0>> }

-----------------------------------------------------------------------------
(* Constants of the program *)

PROPAGATION_INTERVAL == 100
PROPAGATION_RADIUS == 3
MAX_TREE_COVERAGE_PCT == 70
WORKER_SPAWN_INTERVAL == 10
MAX_WORKERS == 2
SPAWN_RADIUS == 2
CHOP_YIELD == 10
MAX_ANNOUNCEMENTS == 5
WARMTH_RADIUS == 2

\* null for a nullable number, record or position; a present value v of a
\* nullable number or record is Some(v)
Null == << >>
Some(v) == << v >>
Val(m) == m[1]
\* selectedBuildType = null, and the buildType of a task that has none
NoType == "none"

\* a Task as queueChopTask and buildAt create it
Task(id, type, x, y, buildType) ==
    [ id |-> id, type |-> type, x |-> x, y |-> y, buildType |-> buildType ]

\* an Agent as createInitialAgent and the worker spawn create it
Agent(id, x, y) ==
    [ id |-> id, x |-> x, y |-> y, state |-> "idle", targetX |-> Null,
      targetY |-> Null, currentTask |-> Null, isWarm |-> FALSE ]

TileTypes == { "grass", "tree", "wall", "door", "bed", "fireplace" }
BUILD_OPTIONS == { "wall", "door", "bed", "fireplace" }

\* BUILD_COSTS[type] || 0
BUILD_COSTS(type) ==
    CASE type = "wall" -> 1
      [] type \in { "door", "bed", "fireplace" } -> 10
      [] OTHER -> 0

Cells(w, h) == (0 .. (w - 1)) \X (0 .. (h - 1))

\* map[y]?.[x]?.type
TypeAt(m, x, y) == IF <<x, y>> \in DOMAIN m THEN m[<<x, y>>] ELSE "undefined"

Abs(n) == IF n < 0 THEN -n ELSE n

\* array.filter(...) keeping the elements at the indices in keep
RECURSIVE KeepIndices(_, _, _)
KeepIndices(s, keep, i) ==
    IF i > Len(s) THEN << >>
    ELSE IF i \in keep THEN << s[i] >> \o KeepIndices(s, keep, i + 1)
    ELSE KeepIndices(s, keep, i + 1)

-----------------------------------------------------------------------------
(* Grid model *)

generateMap(width, height) == [ Cells(width, height) -> { "grass", "tree" } ]

\* C26 mutant: nothing inside the grid blocks movement
isBlocking_nothingBlocks(m, x, y, w, h) ==
    x < 0 \/ x >= w \/ y < 0 \/ y >= h

\* C15 mutant: trees block movement as walls do
isBlocking_treesBlock(m, x, y, w, h) ==
    IF x < 0 \/ x >= w \/ y < 0 \/ y >= h THEN TRUE
    ELSE IF <<x, y>> \notin DOMAIN m THEN TRUE
    ELSE m[<<x, y>>] \in { "wall", "tree" }

isBlocking(m, x, y, w, h) ==
    IF x < 0 \/ x >= w \/ y < 0 \/ y >= h THEN TRUE
    ELSE IF <<x, y>> \notin DOMAIN m THEN TRUE
    ELSE m[<<x, y>>] = "wall"

\* C18 mutant: only walls stop warmth
blocksWarmth_wallsOnly(tileType) == tileType = "wall"

blocksWarmth(tileType) == tileType = "wall" \/ tileType = "door"

\* C22 mutant: the neighbours are tried left, right, up, down
Directions_leftFirst == << <<-1, 0>>, <<1, 0>>, <<0, -1>>, <<0, 1>> >>

Directions == << <<0, -1>>, <<0, 1>>, <<-1, 0>>, <<1, 0>> >>

-----------------------------------------------------------------------------
(* Pathfinder *)

\* C27 mutant: one step straight towards the target, first along x, or null
\* when that cell is blocked
findPath_straightLine(startX, startY, targetX, targetY, m, w, h) ==
    LET nx == IF startX < targetX THEN startX + 1
              ELSE IF startX > targetX THEN startX - 1 ELSE startX
        ny == IF nx # startX THEN startY
              ELSE IF startY < targetY THEN startY + 1 ELSE startY - 1
    IN  IF startX = targetX /\ startY = targetY THEN << startX, startY >>
        ELSE IF (nx # targetX \/ ny # targetY) /\ isBlocking(m, nx, ny, w, h)
        THEN Null
        ELSE << nx, ny >>

\* BFS over the four neighbours in the order up, down, left, right; returns
\* the first step of the path found, the start itself when start = target,
\* or Null when the search ends without reaching the target.
findPath(startX, startY, targetX, targetY, m, w, h) ==
    LET start == <<startX, startY>>
        target == <<targetX, targetY>>
        \* walk cameFrom back from the target to the cell after the start
        RECURSIVE Reconstruct(_, _)
        Reconstruct(curr, cameFrom) ==
            IF curr \in DOMAIN cameFrom
            THEN IF cameFrom[curr] = start THEN curr
                 ELSE Reconstruct(cameFrom[curr], cameFrom)
            ELSE curr
        \* the "for (const {dx, dy} of directions)" loop for one dequeued cell
        RECURSIVE Expand(_, _, _, _, _)
        Expand(current, d, queue, visited, cameFrom) ==
            IF d > Len(Directions)
            THEN [ found |-> FALSE, step |-> Null, queue |-> queue,
                   visited |-> visited, cameFrom |-> cameFrom ]
            ELSE
                LET nx == current[1] + Directions[d][1]
                    ny == current[2] + Directions[d][2]
                    n == <<nx, ny>>
                    isTarget == nx = targetX /\ ny = targetY
                IN  IF n \in visited
                    THEN Expand(current, d + 1, queue, visited, cameFrom)
                    ELSE IF nx < 0 \/ nx >= w \/ ny < 0 \/ ny >= h
                    THEN Expand(current, d + 1, queue, visited, cameFrom)
                    ELSE IF ~isTarget /\ isBlocking(m, nx, ny, w, h)
                    THEN Expand(current, d + 1, queue, visited, cameFrom)
                    ELSE IF isTarget
                    THEN [ found |-> TRUE,
                           step |-> Reconstruct(n, (n :> current) @@ cameFrom),
                           queue |-> queue, visited |-> visited \cup {n},
                           cameFrom |-> (n :> current) @@ cameFrom ]
                    ELSE Expand(current, d + 1, Append(queue, n),
                                visited \cup {n}, (n :> current) @@ cameFrom)
        \* the "while (queue.length > 0)" loop
        RECURSIVE Search(_, _, _)
        Search(queue, visited, cameFrom) ==
            IF queue = << >> THEN Null
            ELSE LET r == Expand(Head(queue), 1, Tail(queue), visited, cameFrom)
                 IN  IF r.found THEN r.step
                     ELSE Search(r.queue, r.visited, r.cameFrom)
    IN  IF startX = targetX /\ startY = targetY
        THEN start
        ELSE Search(<< start >>, { start }, << >>)

-----------------------------------------------------------------------------
(* Initial agent, tree propagation, fireplaces, warmth, spawning *)

\* C16 mutant: the first agent is placed on any tile of the grid
createInitialAgent_anyTile(m, w, h) ==
    LET starts == IF Cells(w, h) = {} THEN { <<0, 0>> } ELSE Cells(w, h)
    IN  { Agent(1, p[1], p[2]) : p \in starts }

\* the agents createInitialAgent can return: on any grass tile, or on (0,0)
\* when the map has no grass tile
createInitialAgent(m, w, h) ==
    LET grassTiles == { c \in Cells(w, h) : m[c] = "grass" }
        starts == IF grassTiles = {} THEN { <<0, 0>> } ELSE grassTiles
    IN  { Agent(1, p[1], p[2]) : p \in starts }

\* C34 mutant: every grass tile of the grid is a valid spawn tile
getValidSpawnTiles_wholeGrid(m, centerX, centerY, radius, w, h) ==
    { c \in Cells(w, h) : c # <<centerX, centerY>> /\ m[c] = "grass" }

\* grass tiles within radius (a square) of a centre, the centre excluded
getValidSpawnTiles(m, centerX, centerY, radius, w, h) ==
    { c \in Cells(w, h) :
        /\ Abs(c[1] - centerX) <= radius
        /\ Abs(c[2] - centerY) <= radius
        /\ c # <<centerX, centerY>>
        /\ m[c] = "grass" }

countTrees(m) == Cardinality({ c \in DOMAIN m : m[c] = "tree" })

\* the sets of tiles the trees of T can nominate between them: every tree
\* nominates nothing or one of its valid spawn tiles
RECURSIVE nominationsOf(_, _, _, _)
nominationsOf(T, m, w, h) ==
    IF T = {} THEN { {} }
    ELSE LET t == CHOOSE u \in T : TRUE
             rest == nominationsOf(T \ { t }, m, w, h)
             spawns == getValidSpawnTiles(m, t[1], t[2], PROPAGATION_RADIUS, w, h)
         IN  rest \cup { N \cup { c } : N \in rest, c \in spawns }

\* C19 mutant: propagation stops only above the maximum coverage
propagateTrees_aboveMaxOnly(m, w, h) ==
    LET totalTiles == w * h
        treeCount == countTrees(m)
        atMax == totalTiles > 0
                 /\ 100 * treeCount > MAX_TREE_COVERAGE_PCT * totalTiles
        trees == { c \in DOMAIN m : m[c] = "tree" }
    IN  IF atMax
        THEN { [ map |-> m, newTreeCount |-> 0 ] }
        ELSE { [ map |-> [ c \in DOMAIN m |->
                             IF c \in N /\ m[c] = "grass" THEN "tree" ELSE m[c] ],
                 newTreeCount |-> Cardinality({ c \in N : m[c] = "grass" }) ] :
               N \in nominationsOf(trees, m, w, h) }

\* the results propagateTrees can return, one for each outcome of the random
\* rolls
propagateTrees(m, w, h) ==
    LET totalTiles == w * h
        treeCount == countTrees(m)
        \* treeCount / totalTiles >= 0.70 (0/0 is NaN, which compares false)
        atMax == totalTiles > 0
                 /\ 100 * treeCount >= MAX_TREE_COVERAGE_PCT * totalTiles
        trees == { c \in DOMAIN m : m[c] = "tree" }
    IN  IF atMax
        THEN { [ map |-> m, newTreeCount |-> 0 ] }
        ELSE { [ map |-> [ c \in DOMAIN m |->
                             IF c \in N /\ m[c] = "grass" THEN "tree" ELSE m[c] ],
                 newTreeCount |-> Cardinality({ c \in N : m[c] = "grass" }) ] :
               N \in nominationsOf(trees, m, w, h) }

findFireplaces(m, w, h) == { c \in Cells(w, h) : m[c] = "fireplace" }

\* flood fill from every fireplace, at most WARMTH_RADIUS steps, stopped by
\* walls and doors
calculateWarmTiles(m, w, h) ==
    LET Neighbours(c) ==
            { n \in Cells(w, h) :
                /\ Abs(n[1] - c[1]) + Abs(n[2] - c[2]) = 1
                /\ ~blocksWarmth(m[n]) }
        RECURSIVE Fill(_, _, _)
        Fill(reached, frontier, dist) ==
            IF frontier = {} \/ dist >= WARMTH_RADIUS THEN reached
            ELSE LET next == (UNION { Neighbours(c) : c \in frontier }) \ reached
                 IN  Fill(reached \cup next, next, dist + 1)
    IN  UNION { Fill({ f }, { f }, 0) : f \in findFireplaces(m, w, h) }

\* C33 mutant: any free grass tile of the grid, however far from the fireplace
findSpawnNearFireplace_wholeGrid(m, fireplace, ags, w, h) ==
    { c \in Cells(w, h) :
        /\ c # fireplace
        /\ m[c] = "grass"
        /\ ~ \E i \in 1 .. Len(ags) : ags[i].x = c[1] /\ ags[i].y = c[2] }

\* the positions findSpawnNearFireplace can return (empty: it returns null)
findSpawnNearFireplace(m, fireplace, ags, w, h) ==
    { c \in Cells(w, h) :
        /\ Abs(c[1] - fireplace[1]) <= SPAWN_RADIUS
        /\ Abs(c[2] - fireplace[2]) <= SPAWN_RADIUS
        /\ c # fireplace
        /\ m[c] = "grass"
        /\ ~ \E i \in 1 .. Len(ags) : ags[i].x = c[1] /\ ags[i].y = c[2] }

-----------------------------------------------------------------------------
(* History kept for the accounting claims; no operation reads it *)

NoLog == [ assigned |-> {}, departed |-> {} ]

\* wood refunded so far on account of the task with this id
CreditOf(cr, id) == IF id \in DOMAIN cr THEN cr[id] ELSE 0

\* the task is credited a further amount
AddCredit(cr, id, amount) ==
    IF amount = 0 THEN cr
    ELSE [ k \in DOMAIN cr \cup { id } |->
             CreditOf(cr, k) + (IF k = id THEN amount ELSE 0) ]

\* the tasks with these ids are no longer in the system
Forget(cr, ids) == [ k \in DOMAIN cr \ ids |-> cr[k] ]

\* the task leaves the system in this tick
Departure(task, total, how) == [ credited |-> total, task |-> task, how |-> how ]

-----------------------------------------------------------------------------
(* Initial state and initializeGame *)

Init(scope) ==
    /\ \E size \in Sizes :
         /\ gridWidth = size[1]
         /\ gridHeight = size[2]
         /\ map \in generateMap(size[1], size[2])
         /\ \E agent \in createInitialAgent(map, size[1], size[2]) :
              agents = << agent >>
    /\ taskQueue = << >>
    /\ wood = 0
    /\ tickCount \in { 0, scope.start }
    /\ isRunning = (tickCount > 0)
    /\ selectedBuildType = NoType
    /\ announcements = << >>
    /\ warmTiles = {}
    /\ taskIdCounter = 0
    /\ announcementIdCounter = 0
    /\ workerIdCounter = 1
    /\ chops = 0
    /\ builtCost = 0
    /\ credited = << >>
    /\ lastTick = NoLog

initializeGame ==
    \E size \in Sizes :
      \E m \in generateMap(size[1], size[2]) :
        \E agent \in createInitialAgent(m, size[1], size[2]) :
          /\ gridWidth' = size[1]
          /\ gridHeight' = size[2]
          /\ map' = m
          /\ agents' = << agent >>
          /\ taskQueue' = << >>
          /\ wood' = 0
          /\ tickCount' = 0
          /\ isRunning' = FALSE
          /\ selectedBuildType' = NoType
          /\ announcements' = << >>
          /\ taskIdCounter' = 0
          /\ announcementIdCounter' = 0
          /\ workerIdCounter' = 1
          /\ chops' = 0
          /\ builtCost' = 0
          /\ credited' = << >>
          /\ lastTick' = NoLog
          /\ UNCHANGED warmTiles

-----------------------------------------------------------------------------
(* Commands *)

startSimulation ==
    /\ isRunning' = TRUE
    /\ UNCHANGED << gridWidth, gridHeight, map, agents, taskQueue, wood,
                    tickCount, selectedBuildType, announcements, warmTiles,
                    taskIdCounter, announcementIdCounter, workerIdCounter,
                    chops, builtCost, credited, lastTick >>

stopSimulation ==
    /\ isRunning' = FALSE
    /\ UNCHANGED << gridWidth, gridHeight, map, agents, taskQueue, wood,
                    tickCount, selectedBuildType, announcements, warmTiles,
                    taskIdCounter, announcementIdCounter, workerIdCounter,
                    chops, builtCost, credited, lastTick >>

toggleSimulation ==
    /\ isRunning' = ~isRunning
    /\ UNCHANGED << gridWidth, gridHeight, map, agents, taskQueue, wood,
                    tickCount, selectedBuildType, announcements, warmTiles,
                    taskIdCounter, announcementIdCounter, workerIdCounter,
                    chops, builtCost, credited, lastTick >>

selectBuildType(scope) ==
    \E type \in scope.types \cup { NoType } :
      /\ selectedBuildType' = type
      /\ UNCHANGED << gridWidth, gridHeight, map, agents, taskQueue, wood,
                      tickCount, isRunning, announcements, warmTiles,
                      taskIdCounter, announcementIdCounter, workerIdCounter,
                      chops, builtCost, credited, lastTick >>

\* coordinates a command can be given: every tile, and two coordinate pairs
\* outside the grid
CommandCoords ==
    Cells(gridWidth, gridHeight) \cup { <<-1, 0>>, <<gridWidth, gridHeight>> }

\* taskQueue.some(task => task.x === x && task.y === y)
alreadyQueued(queue, x, y) ==
    \E i \in 1 .. Len(queue) : queue[i].x = x /\ queue[i].y = y

\* C11 mutant: queueChopTask without the tile-is-a-tree test
queueChopTaskAccepts_anyTile(queue, x, y) ==
    ~alreadyQueued(queue, x, y)

\* queueChopTask goes past its two early returns
queueChopTaskAccepts(queue, x, y) ==
    /\ ~alreadyQueued(queue, x, y)
    /\ TypeAt(map, x, y) = "tree"

\* the queue and the task counter queueChopTask(x, y) leaves
queueChopTaskOn(queue, counter, x, y) ==
    IF queueChopTaskAccepts(queue, x, y)
    THEN [ queue |-> Append(queue, Task(counter + 1, "chop", x, y, NoType)),
           counter |-> counter + 1 ]
    ELSE [ queue |-> queue, counter |-> counter ]

queueChopTask(scope) ==
    \E c \in CommandCoords :
      LET result == queueChopTaskOn(taskQueue, taskIdCounter, c[1], c[2])
      IN  IF result.counter # taskIdCounter
          THEN /\ taskIdCounter < scope.tasks
               /\ Len(taskQueue) < MaxQueue
               /\ taskIdCounter' = result.counter
               /\ taskQueue' = result.queue
               /\ UNCHANGED << gridWidth, gridHeight, map, agents, wood,
                               tickCount, isRunning, selectedBuildType,
                               announcements, warmTiles, announcementIdCounter,
                               workerIdCounter, chops, builtCost, credited,
                               lastTick >>
          ELSE UNCHANGED vars

\* buildAt goes past its four early returns
\* C1 mutant: buildAt without the wood >= cost test
buildAtAccepts_noWoodTest(x, y) ==
    /\ selectedBuildType # NoType
    /\ TypeAt(map, x, y) = "grass"
    /\ ~alreadyQueued(taskQueue, x, y)

buildAtAccepts(x, y) ==
    /\ selectedBuildType # NoType
    /\ TypeAt(map, x, y) = "grass"
    /\ ~alreadyQueued(taskQueue, x, y)
    /\ wood >= BUILD_COSTS(selectedBuildType)

\* C12 mutant: buildAt that queues the task without reserving its cost
buildAt_noDebit(scope) ==
    \E c \in CommandCoords :
      IF buildAtAccepts(c[1], c[2])
      THEN /\ taskIdCounter < scope.tasks
           /\ Len(taskQueue) < MaxQueue
           /\ taskIdCounter' = taskIdCounter + 1
           /\ taskQueue' = Append(taskQueue,
                                  Task(taskIdCounter + 1, "build", c[1], c[2],
                                       selectedBuildType))
           /\ UNCHANGED << gridWidth, gridHeight, map, agents, wood, tickCount,
                           isRunning, selectedBuildType, announcements,
                           warmTiles, announcementIdCounter, workerIdCounter,
                           chops, builtCost, credited, lastTick >>
      ELSE UNCHANGED vars

buildAt(scope) ==
    \E c \in CommandCoords :
      LET x == c[1]
          y == c[2]
          cost == BUILD_COSTS(selectedBuildType)
          newTask == Task(taskIdCounter + 1, "build", x, y,
                          selectedBuildType)
      IN  IF buildAtAccepts(x, y)
          THEN /\ taskIdCounter < scope.tasks
               /\ Len(taskQueue) < MaxQueue
               /\ taskIdCounter' = taskIdCounter + 1
               /\ taskQueue' = Append(taskQueue, newTask)
               /\ wood' = wood - cost
               /\ UNCHANGED << gridWidth, gridHeight, map, agents, tickCount,
                               isRunning, selectedBuildType, announcements,
                               warmTiles, announcementIdCounter,
                               workerIdCounter, chops, builtCost, credited,
                               lastTick >>
          ELSE UNCHANGED vars

\* C21 mutant: isTaskQueued that looks at the queue only
isTaskQueued_queueOnly(x, y) == alreadyQueued(taskQueue, x, y)

isTaskQueued(x, y) ==
    LET inQueue == alreadyQueued(taskQueue, x, y)
        agentTargeting ==
            \E i \in 1 .. Len(agents) :
                agents[i].targetX = Some(x) /\ agents[i].targetY = Some(y)
    IN  inQueue \/ agentTargeting

-----------------------------------------------------------------------------
(* tick: the values the handler works on are gathered in a record          *)
(*   [ map, wood, queue, ann, annId ]  and the history                     *)
(*   [ chops, builtCost, credited, log ]                                   *)
(* which every step of the handler takes and returns.                      *)

\* the announce helper: push, then keep the last five
announce(ts, message) ==
    LET pushed == Append(ts.ann, [ id |-> ts.annId + 1, message |-> message ])
        kept == IF Len(pushed) > MAX_ANNOUNCEMENTS
                THEN SubSeq(pushed, Len(pushed) - MAX_ANNOUNCEMENTS + 1, Len(pushed))
                ELSE pushed
    IN  [ ts EXCEPT !.ann = kept, !.annId = ts.annId + 1 ]

\* C10 mutant: the scan takes a build task without looking at its tile
taskValid_buildUnchecked(task, m) ==
    IF task.type = "chop" THEN TypeAt(m, task.x, task.y) = "tree"
    ELSE task.type = "build"

\* the validity test of the assignment scan
taskValid(task, m) ==
    IF task.type = "chop" THEN TypeAt(m, task.x, task.y) = "tree"
    ELSE IF task.type = "build" THEN TypeAt(m, task.x, task.y) = "grass"
    ELSE FALSE

\* BUILD_COSTS[task.buildType || ''] || 0
refundOf(task) == BUILD_COSTS(task.buildType)

\* C23 mutant: a scan in which a later task at the same distance wins
RECURSIVE scanQueue_lastTieWins(_, _, _, _, _)
scanQueue_lastTieWins(queue, m, agent, i, acc) ==
    IF i > Len(queue) THEN acc
    ELSE
        LET task == queue[i]
            valid == taskValid(task, m)
            dist == Abs(task.x - agent.x) + Abs(task.y - agent.y)
            better == valid /\ (acc.bestIndex = 0 \/ dist <= acc.bestDistance)
        IN  scanQueue_lastTieWins(queue, m, agent, i + 1,
              [ bestIndex |-> IF better THEN i ELSE acc.bestIndex,
                bestDistance |-> IF better THEN dist ELSE acc.bestDistance,
                invalidIndices |-> IF valid THEN acc.invalidIndices
                                   ELSE acc.invalidIndices \cup { i },
                refund |-> IF ~valid /\ task.type = "build"
                           THEN acc.refund + refundOf(task)
                           ELSE acc.refund ])

\* the scan loop of an agent without a target: the index of the nearest valid
\* task (0: none), the indices of the invalid tasks, and the wood refunded
\* for the invalid build tasks
RECURSIVE scanQueue(_, _, _, _, _)
scanQueue(queue, m, agent, i, acc) ==
    IF i > Len(queue) THEN acc
    ELSE
        LET task == queue[i]
            valid == taskValid(task, m)
            dist == Abs(task.x - agent.x) + Abs(task.y - agent.y)
            better == valid /\ (acc.bestIndex = 0 \/ dist < acc.bestDistance)
        IN  scanQueue(queue, m, agent, i + 1,
              [ bestIndex |-> IF better THEN i ELSE acc.bestIndex,
                bestDistance |-> IF better THEN dist ELSE acc.bestDistance,
                invalidIndices |-> IF valid THEN acc.invalidIndices
                                   ELSE acc.invalidIndices \cup { i },
                refund |-> IF ~valid /\ task.type = "build"
                           THEN acc.refund + refundOf(task)
                           ELSE acc.refund ])

\* history: the refunds of one scan, credited task by task
RECURSIVE CreditScan(_, _, _, _)
CreditScan(cr, queue, invalid, i) ==
    IF i > Len(queue) THEN cr
    ELSE CreditScan(
           IF i \in invalid /\ queue[i].type = "build"
           THEN AddCredit(cr, queue[i].id, refundOf(queue[i])) ELSE cr,
           queue, invalid, i + 1)

\* an agent without a target: take the nearest valid task, or clean the queue
pickTask(ts, agent) ==
    IF Len(ts.queue) > 0
    THEN
        LET scan == scanQueue(ts.queue, ts.map, agent, 1,
                      [ bestIndex |-> 0, bestDistance |-> 0,
                        invalidIndices |-> {}, refund |-> 0 ])
            cr == CreditScan(ts.credited, ts.queue, scan.invalidIndices, 1)
            newWood == ts.wood + scan.refund
        IN  IF scan.bestIndex > 0
            THEN
                LET bestTask == ts.queue[scan.bestIndex]
                IN  [ ts |-> [ ts EXCEPT
                          !.wood = newWood,
                          !.queue = KeepIndices(ts.queue,
                                      (1 .. Len(ts.queue)) \ { scan.bestIndex }, 1),
                          !.credited = cr,
                          !.log.assigned = @ \cup
                              { [ task |-> bestTask,
                                  tile |-> TypeAt(ts.map, bestTask.x, bestTask.y) ] } ],
                      agent |-> [ agent EXCEPT
                          !.targetX = Some(bestTask.x),
                          !.targetY = Some(bestTask.y),
                          !.state = "moving",
                          !.currentTask = Some(bestTask) ] ]
            ELSE
                [ ts |-> [ ts EXCEPT
                      !.wood = newWood,
                      !.queue = KeepIndices(ts.queue,
                                  (1 .. Len(ts.queue)) \ scan.invalidIndices, 1),
                      !.credited = Forget(cr, { ts.queue[i].id :
                                                  i \in scan.invalidIndices }),
                      !.log.departed = @ \cup
                          { Departure(ts.queue[i], CreditOf(cr, ts.queue[i].id),
                                      "pruned") : i \in scan.invalidIndices } ],
                  agent |-> [ agent EXCEPT !.state = "idle" ] ]
    ELSE [ ts |-> ts, agent |-> [ agent EXCEPT !.state = "idle" ] ]

\* C6 mutant: an agent holding a build task builds whatever the tile is
workAtTarget_buildsOnAnyTile(ts, agent) ==
    LET tx == Val(agent.targetX)
        ty == Val(agent.targetY)
        targetType == ts.map[<<tx, ty>>]
        hasTask == agent.currentTask # Null
        task == Val(agent.currentTask)
        cleared == [ agent EXCEPT !.targetX = Null, !.targetY = Null,
                                  !.currentTask = Null ]
        gone(t, how) ==
            IF hasTask
            THEN [ t EXCEPT
                     !.credited = Forget(t.credited, { task.id }),
                     !.log.departed = @ \cup
                         { Departure(task, CreditOf(t.credited, task.id), how) } ]
            ELSE t
    IN  IF hasTask /\ task.type = "build" /\ task.buildType # NoType
        THEN [ ts |-> gone([ announce(ts, "Built " \o task.buildType) EXCEPT
                   !.map = [ ts.map EXCEPT ![<<tx, ty>>] = task.buildType ],
                   !.builtCost = ts.builtCost + BUILD_COSTS(task.buildType) ],
                 "built"),
               agent |-> [ cleared EXCEPT !.state = "building" ] ]
        ELSE IF targetType = "tree"
        THEN [ ts |-> gone([ ts EXCEPT
                   !.map = [ ts.map EXCEPT ![<<tx, ty>>] = "grass" ],
                   !.wood = ts.wood + CHOP_YIELD,
                   !.chops = ts.chops + 1 ],
                 IF hasTask /\ task.type = "chop" THEN "chopped" ELSE "dropped"),
               agent |-> [ cleared EXCEPT !.state = "chopping" ] ]
        ELSE [ ts |-> gone(ts, "dropped"), agent |-> cleared ]

\* C9 mutant: after the work the target is cleared but the task is kept
workAtTarget_keepsTask(ts, agent) ==
    LET tx == Val(agent.targetX)
        ty == Val(agent.targetY)
        targetType == ts.map[<<tx, ty>>]
        hasTask == agent.currentTask # Null
        task == Val(agent.currentTask)
        cleared == [ agent EXCEPT !.targetX = Null, !.targetY = Null ]
        gone(t, how) ==
            IF hasTask
            THEN [ t EXCEPT
                     !.credited = Forget(t.credited, { task.id }),
                     !.log.departed = @ \cup
                         { Departure(task, CreditOf(t.credited, task.id), how) } ]
            ELSE t
    IN  IF targetType = "tree"
        THEN [ ts |-> gone([ ts EXCEPT
                   !.map = [ ts.map EXCEPT ![<<tx, ty>>] = "grass" ],
                   !.wood = ts.wood + CHOP_YIELD,
                   !.chops = ts.chops + 1 ],
                 IF hasTask /\ task.type = "chop" THEN "chopped" ELSE "dropped"),
               agent |-> [ cleared EXCEPT !.state = "chopping" ] ]
        ELSE IF hasTask /\ task.type = "build" /\ task.buildType # NoType
                /\ targetType = "grass"
        THEN [ ts |-> gone([ announce(ts, "Built " \o task.buildType) EXCEPT
                   !.map = [ ts.map EXCEPT ![<<tx, ty>>] = task.buildType ],
                   !.builtCost = ts.builtCost + BUILD_COSTS(task.buildType) ],
                 "built"),
               agent |-> [ cleared EXCEPT !.state = "building" ] ]
        ELSE [ ts |-> gone(ts, "dropped"), agent |-> cleared ]

\* C29 mutant: only an agent holding a chop task chops the tree it stands on
workAtTarget_chopTaskOnly(ts, agent) ==
    LET tx == Val(agent.targetX)
        ty == Val(agent.targetY)
        targetType == ts.map[<<tx, ty>>]
        hasTask == agent.currentTask # Null
        task == Val(agent.currentTask)
        cleared == [ agent EXCEPT !.targetX = Null, !.targetY = Null,
                                  !.currentTask = Null ]
        gone(t, how) ==
            IF hasTask
            THEN [ t EXCEPT
                     !.credited = Forget(t.credited, { task.id }),
                     !.log.departed = @ \cup
                         { Departure(task, CreditOf(t.credited, task.id), how) } ]
            ELSE t
    IN  IF targetType = "tree" /\ hasTask /\ task.type = "chop"
        THEN [ ts |-> gone([ ts EXCEPT
                   !.map = [ ts.map EXCEPT ![<<tx, ty>>] = "grass" ],
                   !.wood = ts.wood + CHOP_YIELD,
                   !.chops = ts.chops + 1 ],
                 "chopped"),
               agent |-> [ cleared EXCEPT !.state = "chopping" ] ]
        ELSE IF hasTask /\ task.type = "build" /\ task.buildType # NoType
                /\ targetType = "grass"
        THEN [ ts |-> gone([ announce(ts, "Built " \o task.buildType) EXCEPT
                   !.map = [ ts.map EXCEPT ![<<tx, ty>>] = task.buildType ],
                   !.builtCost = ts.builtCost + BUILD_COSTS(task.buildType) ],
                 "built"),
               agent |-> [ cleared EXCEPT !.state = "building" ] ]
        ELSE [ ts |-> gone(ts, "dropped"), agent |-> cleared ]

\* C30 mutant: the cost of a build is taken again when it is completed
workAtTarget_paysOnCompletion(ts, agent) ==
    LET tx == Val(agent.targetX)
        ty == Val(agent.targetY)
        targetType == ts.map[<<tx, ty>>]
        hasTask == agent.currentTask # Null
        task == Val(agent.currentTask)
        cleared == [ agent EXCEPT !.targetX = Null, !.targetY = Null,
                                  !.currentTask = Null ]
        gone(t, how) ==
            IF hasTask
            THEN [ t EXCEPT
                     !.credited = Forget(t.credited, { task.id }),
                     !.log.departed = @ \cup
                         { Departure(task, CreditOf(t.credited, task.id), how) } ]
            ELSE t
    IN  IF targetType = "tree"
        THEN [ ts |-> gone([ ts EXCEPT
                   !.map = [ ts.map EXCEPT ![<<tx, ty>>] = "grass" ],
                   !.wood = ts.wood + CHOP_YIELD,
                   !.chops = ts.chops + 1 ],
                 IF hasTask /\ task.type = "chop" THEN "chopped" ELSE "dropped"),
               agent |-> [ cleared EXCEPT !.state = "chopping" ] ]
        ELSE IF hasTask /\ task.type = "build" /\ task.buildType # NoType
                /\ targetType = "grass"
        THEN [ ts |-> gone([ announce(ts, "Built " \o task.buildType) EXCEPT
                   !.map = [ ts.map EXCEPT ![<<tx, ty>>] = task.buildType ],
                   !.wood = ts.wood - BUILD_COSTS(task.buildType),
                   !.builtCost = ts.builtCost + BUILD_COSTS(task.buildType) ],
                 "built"),
               agent |-> [ cleared EXCEPT !.state = "building" ] ]
        ELSE [ ts |-> gone(ts, "dropped"), agent |-> cleared ]

\* C37 mutant: an agent holding a chop task is credited the wood also when
\* the tree is gone
workAtTarget_creditsPerTask(ts, agent) ==
    LET tx == Val(agent.targetX)
        ty == Val(agent.targetY)
        targetType == ts.map[<<tx, ty>>]
        hasTask == agent.currentTask # Null
        task == Val(agent.currentTask)
        cleared == [ agent EXCEPT !.targetX = Null, !.targetY = Null,
                                  !.currentTask = Null ]
        gone(t, how) ==
            IF hasTask
            THEN [ t EXCEPT
                     !.credited = Forget(t.credited, { task.id }),
                     !.log.departed = @ \cup
                         { Departure(task, CreditOf(t.credited, task.id), how) } ]
            ELSE t
    IN  IF targetType = "tree" \/ (hasTask /\ task.type = "chop")
        THEN [ ts |-> gone([ ts EXCEPT
                   !.map = [ ts.map EXCEPT ![<<tx, ty>>] = "grass" ],
                   !.wood = ts.wood + CHOP_YIELD,
                   !.chops = ts.chops + 1 ],
                 IF hasTask /\ task.type = "chop" THEN "chopped" ELSE "dropped"),
               agent |-> [ cleared EXCEPT !.state = "chopping" ] ]
        ELSE IF hasTask /\ task.type = "build" /\ task.buildType # NoType
                /\ targetType = "grass"
        THEN [ ts |-> gone([ announce(ts, "Built " \o task.buildType) EXCEPT
                   !.map = [ ts.map EXCEPT ![<<tx, ty>>] = task.buildType ],
                   !.builtCost = ts.builtCost + BUILD_COSTS(task.buildType) ],
                 "built"),
               agent |-> [ cleared EXCEPT !.state = "building" ] ]
        ELSE [ ts |-> gone(ts, "dropped"), agent |-> cleared ]

\* an agent standing on its target: chop, build or nothing, then clear
workAtTarget(ts, agent) ==
    LET tx == Val(agent.targetX)
        ty == Val(agent.targetY)
        targetType == ts.map[<<tx, ty>>]
        hasTask == agent.currentTask # Null
        task == Val(agent.currentTask)
        cleared == [ agent EXCEPT !.targetX = Null, !.targetY = Null,
                                  !.currentTask = Null ]
        \* history: the agent's task leaves the system
        gone(t, how) ==
            IF hasTask
            THEN [ t EXCEPT
                     !.credited = Forget(t.credited, { task.id }),
                     !.log.departed = @ \cup
                         { Departure(task, CreditOf(t.credited, task.id), how) } ]
            ELSE t
    IN  IF targetType = "tree"
        THEN [ ts |-> gone([ ts EXCEPT
                   !.map = [ ts.map EXCEPT ![<<tx, ty>>] = "grass" ],
                   !.wood = ts.wood + CHOP_YIELD,
                   !.chops = ts.chops + 1 ],
                 IF hasTask /\ task.type = "chop" THEN "chopped" ELSE "dropped"),
               agent |-> [ cleared EXCEPT !.state = "chopping" ] ]
        ELSE IF hasTask /\ task.type = "build" /\ task.buildType # NoType
                /\ targetType = "grass"
        THEN [ ts |-> gone([ announce(ts, "Built " \o task.buildType) EXCEPT
                   !.map = [ ts.map EXCEPT ![<<tx, ty>>] = task.buildType ],
                   !.builtCost = ts.builtCost + BUILD_COSTS(task.buildType) ],
                 "built"),
               agent |-> [ cleared EXCEPT !.state = "building" ] ]
        ELSE [ ts |-> gone(ts, "dropped"), agent |-> cleared ]

\* C25 mutant: an abandoned build task is dropped without its refund
moveOrAbandon_noRefund(ts, agent, w, h) ==
    LET nextStep == findPath(agent.x, agent.y, Val(agent.targetX),
                             Val(agent.targetY), ts.map, w, h)
        hasTask == agent.currentTask # Null
        task == Val(agent.currentTask)
        dropped == [ agent EXCEPT !.targetX = Null, !.targetY = Null,
                                  !.currentTask = Null, !.state = "idle" ]
    IN  IF nextStep # Null /\ (nextStep[1] # agent.x \/ nextStep[2] # agent.y)
        THEN [ ts |-> ts,
               agent |-> [ agent EXCEPT !.state = "moving",
                                        !.x = nextStep[1], !.y = nextStep[2] ] ]
        ELSE IF hasTask /\ task.type = "build"
        THEN [ ts |-> [ ts EXCEPT
                   !.credited = Forget(ts.credited, { task.id }),
                   !.log.departed = @ \cup
                       { Departure(task, CreditOf(ts.credited, task.id),
                                   "abandoned") } ],
               agent |-> dropped ]
        ELSE IF hasTask
        THEN [ ts |-> [ ts EXCEPT !.queue = Append(ts.queue, task) ],
               agent |-> dropped ]
        ELSE [ ts |-> ts, agent |-> dropped ]

\* C38 mutant: the abandoning agent keeps the chop task it pushed back
moveOrAbandon_keepsTask(ts, agent, w, h) ==
    LET nextStep == findPath(agent.x, agent.y, Val(agent.targetX),
                             Val(agent.targetY), ts.map, w, h)
        hasTask == agent.currentTask # Null
        task == Val(agent.currentTask)
        dropped == [ agent EXCEPT !.targetX = Null, !.targetY = Null,
                                  !.currentTask = Null, !.state = "idle" ]
    IN  IF nextStep # Null /\ (nextStep[1] # agent.x \/ nextStep[2] # agent.y)
        THEN [ ts |-> ts,
               agent |-> [ agent EXCEPT !.state = "moving",
                                        !.x = nextStep[1], !.y = nextStep[2] ] ]
        ELSE IF hasTask /\ task.type = "build"
        THEN [ ts |-> [ ts EXCEPT
                   !.wood = ts.wood + refundOf(task),
                   !.credited = Forget(ts.credited, { task.id }),
                   !.log.departed = @ \cup
                       { Departure(task,
                                   CreditOf(ts.credited, task.id) + refundOf(task),
                                   "abandoned") } ],
               agent |-> dropped ]
        ELSE IF hasTask
        THEN [ ts |-> [ ts EXCEPT !.queue = Append(ts.queue, task) ],
               agent |-> [ agent EXCEPT !.state = "idle" ] ]
        ELSE [ ts |-> ts, agent |-> dropped ]

\* an agent away from its target: one step along findPath, or abandon
moveOrAbandon(ts, agent, w, h) ==
    LET nextStep == findPath(agent.x, agent.y, Val(agent.targetX),
                             Val(agent.targetY), ts.map, w, h)
        hasTask == agent.currentTask # Null
        task == Val(agent.currentTask)
        dropped == [ agent EXCEPT !.targetX = Null, !.targetY = Null,
                                  !.currentTask = Null, !.state = "idle" ]
    IN  IF nextStep # Null /\ (nextStep[1] # agent.x \/ nextStep[2] # agent.y)
        THEN [ ts |-> ts,
               agent |-> [ agent EXCEPT !.state = "moving",
                                        !.x = nextStep[1], !.y = nextStep[2] ] ]
        ELSE IF hasTask /\ task.type = "build"
        THEN [ ts |-> [ ts EXCEPT
                   !.wood = ts.wood + refundOf(task),
                   !.credited = Forget(ts.credited, { task.id }),
                   !.log.departed = @ \cup
                       { Departure(task,
                                   CreditOf(ts.credited, task.id) + refundOf(task),
                                   "abandoned") } ],
               agent |-> dropped ]
        ELSE IF hasTask
        THEN [ ts |-> [ ts EXCEPT !.queue = Append(ts.queue, task) ],
               agent |-> dropped ]
        ELSE [ ts |-> ts, agent |-> dropped ]

\* the body of newAgents.map(agent => ...)
updateAgent(ts, agent, w, h) ==
    IF agent.targetX = Null \/ agent.targetY = Null
    THEN pickTask(ts, agent)
    ELSE IF agent.x = Val(agent.targetX) /\ agent.y = Val(agent.targetY)
    THEN workAtTarget(ts, agent)
    ELSE moveOrAbandon(ts, agent, w, h)

\* C36 mutant: newAgents.map visiting the agent list from its end
RECURSIVE updateAgents_lastFirst(_, _, _, _, _, _)
updateAgents_lastFirst(ts, ags, i, done, w, h) ==
    IF i > Len(ags) THEN [ ts |-> ts, agents |-> done ]
    ELSE LET k == Len(ags) + 1 - i
             r == updateAgent(ts, ags[k], w, h)
         IN  updateAgents_lastFirst(r.ts, ags, i + 1, << r.agent >> \o done, w, h)

\* newAgents.map over the agent list, in list order
RECURSIVE updateAgents(_, _, _, _, _, _)
updateAgents(ts, ags, i, done, w, h) ==
    IF i > Len(ags) THEN [ ts |-> ts, agents |-> done ]
    ELSE LET r == updateAgent(ts, ags[i], w, h)
         IN  updateAgents(r.ts, ags, i + 1, Append(done, r.agent), w, h)

\* C39 mutant: the flags are taken at the positions the agents had before
\* they moved
markWarm_beforeMove(ags, newWarmTiles) ==
    [ i \in 1 .. Len(ags) |->
        [ ags[i] EXCEPT !.isWarm =
            IF i <= Len(agents)
            THEN <<agents[i].x, agents[i].y>> \in newWarmTiles
            ELSE <<ags[i].x, ags[i].y>> \in newWarmTiles ] ]

\* newAgents.map(agent => ({ ...agent, isWarm: newWarmTiles.has(...) }))
markWarm(ags, newWarmTiles) ==
    [ i \in 1 .. Len(ags) |->
        [ ags[i] EXCEPT !.isWarm = <<ags[i].x, ags[i].y>> \in newWarmTiles ] ]

\* `${n} new tree${n > 1 ? 's' : ''} grew`
treesGrewMessage(n) ==
    ToString(n) \o " new tree" \o (IF n > 1 THEN "s" ELSE "") \o " grew"

\* C20 mutant: workers keep arriving, whatever the number of agents
spawnOutcomes_noCap(m, ags, newTickCount, w, h) ==
    IF newTickCount % WORKER_SPAWN_INTERVAL = 0
    THEN { Null } \cup UNION { findSpawnNearFireplace(m, f, ags, w, h) :
                                 f \in findFireplaces(m, w, h) }
    ELSE { Null }

\* the positions a worker can be spawned at in this tick (Null: no spawn)
spawnOutcomes(m, ags, newTickCount, w, h) ==
    IF newTickCount % WORKER_SPAWN_INTERVAL = 0 /\ Len(ags) < MAX_WORKERS
    THEN { Null } \cup UNION { findSpawnNearFireplace(m, f, ags, w, h) :
                                 f \in findFireplaces(m, w, h) }
    ELSE { Null }

\* the body of tick, past its isRunning test
runTick(scope) ==
    /\ scope.start <= tickCount
    /\ tickCount < scope.start + scope.ticks
    /\ LET newTickCount == tickCount + 1 IN
       \E grown \in ( IF newTickCount % PROPAGATION_INTERVAL = 0
                      THEN propagateTrees(map, gridWidth, gridHeight)
                      ELSE { [ map |-> map, newTreeCount |-> 0 ] } ) :
       \E spawnPos \in spawnOutcomes(grown.map, agents, newTickCount,
                                    gridWidth, gridHeight) :
         LET ts0 == [ map |-> grown.map, wood |-> wood, queue |-> taskQueue,
                      ann |-> announcements, annId |-> announcementIdCounter,
                      chops |-> chops, builtCost |-> builtCost,
                      credited |-> credited, log |-> NoLog ]
             ts1 == IF grown.newTreeCount > 0
                    THEN announce(ts0, treesGrewMessage(grown.newTreeCount))
                    ELSE ts0
             spawned == spawnPos # Null
             newWorker == Agent(workerIdCounter + 1, spawnPos[1], spawnPos[2])
             ts2 == IF spawned
                    THEN announce(ts1, "A new visitor has arrived!")
                    ELSE ts1
             ags2 == IF spawned THEN Append(agents, newWorker) ELSE agents
             r == updateAgents(ts2, ags2, 1, << >>, gridWidth, gridHeight)
             newWarmTiles == calculateWarmTiles(r.ts.map, gridWidth, gridHeight)
         IN  /\ map' = r.ts.map
             /\ agents' = markWarm(r.agents, newWarmTiles)
             /\ taskQueue' = r.ts.queue
             /\ wood' = r.ts.wood
             /\ tickCount' = IF scope.period > 0
                             THEN newTickCount % scope.period
                             ELSE newTickCount
             /\ announcements' = r.ts.ann
             /\ announcementIdCounter' = r.ts.annId
             /\ warmTiles' = newWarmTiles
             /\ workerIdCounter' = IF spawned THEN workerIdCounter + 1
                                   ELSE workerIdCounter
             /\ chops' = r.ts.chops
             /\ builtCost' = r.ts.builtCost
             /\ credited' = r.ts.credited
             /\ lastTick' = r.ts.log
             /\ UNCHANGED << gridWidth, gridHeight, isRunning,
                             selectedBuildType, taskIdCounter >>

\* C14 mutant: tick without the isRunning test
tick_ignoresPause(scope) == runTick(scope)

tick(scope) ==
    IF ~isRunning THEN UNCHANGED vars ELSE runTick(scope)

-----------------------------------------------------------------------------

Next(scope) ==
    \/ initializeGame
    \/ tick(scope)
    \/ startSimulation
    \/ stopSimulation
    \/ toggleSimulation
    \/ selectBuildType(scope)
    \/ queueChopTask(scope)
    \/ buildAt(scope)

Spec == Init(Walls) /\ [][Next(Walls)]_vars

SpecSettle == Init(Settle) /\ [][Next(Settle)]_vars

-----------------------------------------------------------------------------
(* Claims *)

\* the tasks held by agents, in agent-list order
HeldTasks ==
    LET RECURSIVE Held(_)
        Held(i) == IF i > Len(agents) THEN << >>
                   ELSE IF agents[i].currentTask = Null THEN Held(i + 1)
                   ELSE << Val(agents[i].currentTask) >> \o Held(i + 1)
    IN  Held(1)

\* the tasks in the queue or held by an agent
OutstandingTasks == taskQueue \o HeldTasks

RECURSIVE SumBuildCosts(_)
SumBuildCosts(tasks) ==
    IF tasks = << >> THEN 0
    ELSE (IF Head(tasks).type = "build" THEN BUILD_COSTS(Head(tasks).buildType)
          ELSE 0) + SumBuildCosts(Tail(tasks))

\* C1: in every reachable state wood >= 0.
C1_WoodNonNegative == wood >= 0

\* C1 witness: a build was paid for with the last wood and is still queued.
C1_Witness ==
    /\ wood = 0
    /\ \E i \in 1 .. Len(taskQueue) : taskQueue[i].type = "build"

\* C2: a build task that leaves the system without its build completing,
\* pruned from the queue or abandoned for want of a path, has been credited
\* exactly cost(buildType) in total.
C2_RefundedExactlyOnce ==
    \A d \in lastTick.departed :
        (d.task.type = "build" /\ d.how \in { "pruned", "abandoned" })
            => d.credited = BUILD_COSTS(d.task.buildType)

\* C3: wood = 10 x completed chops - cost of the completed builds - cost of
\* the build tasks still in the queue or held by an agent.
C3_WoodConserved ==
    wood = CHOP_YIELD * chops - builtCost - SumBuildCosts(OutstandingTasks)

\* C4: no two entries of the task queue have the same (x, y).
C4_QueueCoordsDistinct ==
    \A i, j \in 1 .. Len(taskQueue) :
        (taskQueue[i].x = taskQueue[j].x /\ taskQueue[i].y = taskQueue[j].y)
            => i = j

\* C5: at most one outstanding task per tile, counting the tasks in the
\* queue and the tasks held by agents.
C5_OneOutstandingTaskPerTile ==
    \A i, j \in 1 .. Len(OutstandingTasks) :
        (OutstandingTasks[i].x = OutstandingTasks[j].x
         /\ OutstandingTasks[i].y = OutstandingTasks[j].y) => i = j

\* a tile type may stay, or change grass -> tree, tree -> grass,
\* grass -> wall, door, bed or fireplace
AllowedTransition(from, to) ==
    \/ from = to
    \/ from = "grass" /\ to \in { "tree" } \cup BUILD_OPTIONS
    \/ from = "tree" /\ to = "grass"

C7_NoAgentOnWall ==
    \A i \in 1 .. Len(agents) :
        TypeAt(map, agents[i].x, agents[i].y) # "wall"

\* C8: every agent's position is inside the grid.
C8_AgentsInBounds ==
    \A i \in 1 .. Len(agents) :
        /\ 0 <= agents[i].x /\ agents[i].x < gridWidth
        /\ 0 <= agents[i].y /\ agents[i].y < gridHeight

\* C9: for every agent, targetX is null iff targetY is null, currentTask is
\* non-null iff the target is non-null, and a target equals the task's (x, y).
C9_TargetMatchesTask ==
    \A i \in 1 .. Len(agents) :
        LET a == agents[i] IN
        /\ (a.targetX = Null) <=> (a.targetY = Null)
        /\ (a.currentTask # Null) <=> (a.targetX # Null)
        /\ (a.currentTask # Null /\ a.targetX # Null /\ a.targetY # Null)
               => /\ Val(a.targetX) = Val(a.currentTask).x
                  /\ Val(a.targetY) = Val(a.currentTask).y

\* C9 witness: an agent that has completed a build, and was cleared, is
\* walking to the tile of the next task it was assigned.
C9_Witness ==
    /\ builtCost > 0
    /\ \E i \in 1 .. Len(agents) :
         /\ agents[i].currentTask # Null
         /\ agents[i].state = "moving"
         /\ agents[i].x # Val(agents[i].targetX)

\* C10: a task is handed to an agent only if, at the moment of assignment,
\* its tile is a tree (chop task) or grass (build task).
C10_AssignedTasksValid ==
    \A e \in lastTick.assigned :
        /\ e.task.type = "chop" => e.tile = "tree"
        /\ e.task.type = "build" => e.tile = "grass"

\* C10 witness: in tick 100 a tree grew on the tile of a queued build task,
\* and the scan that followed handed the agent another task and left the
\* build task in the queue.
C10_Witness ==
    /\ tickCount = PROPAGATION_INTERVAL
    /\ lastTick.assigned # {}
    /\ \E i \in 1 .. Len(taskQueue) :
         /\ taskQueue[i].type = "build"
         /\ TypeAt(map, taskQueue[i].x, taskQueue[i].y) = "tree"

-----------------------------------------------------------------------------
(* Commands: rejection and effect *)

\* the task a command has just appended
AddedTask == taskQueue'[Len(taskQueue')]

\* the conditions under which the store accepts a command for this task,
\* read off the state before the command
CommandAdmissible(t) ==
    /\ <<t.x, t.y>> \in Cells(gridWidth, gridHeight)
    /\ ~ \E i \in 1 .. Len(taskQueue) :
            taskQueue[i].x = t.x /\ taskQueue[i].y = t.y
    /\ \/ t.type = "chop" /\ map[<<t.x, t.y>>] = "tree"
       \/ /\ t.type = "build"
          /\ map[<<t.x, t.y>>] = "grass"
          /\ t.buildType = selectedBuildType
          /\ t.buildType \in BUILD_OPTIONS
          /\ wood >= BUILD_COSTS(t.buildType)

\* C11: a rejected command is a no-op.  A task enters the system only by a
\* command whose conditions held (tile in range, of the right type, not in
\* the queue, wood >= cost for a build); any other step that is neither a
\* tick nor an initialization leaves queue, wood, grid and agents as they
\* were.
C11_RejectedCommandsNoOp ==
    [][ /\ taskIdCounter' > taskIdCounter => CommandAdmissible(AddedTask)
        /\ (taskIdCounter' = taskIdCounter /\ tickCount' = tickCount)
             => \/ UNCHANGED << taskQueue, wood, map, agents >>
                \/ initializeGame ]_vars

\* a state in which buildAt is rejected for lack of wood on a grass tile, for
\* a queued tile and out of range, and queueChopTask on a non-tree tile
C11_Witness ==
    /\ selectedBuildType # NoType
    /\ wood < BUILD_COSTS(selectedBuildType)
    /\ taskQueue # << >>
    /\ \E c \in DOMAIN map : map[c] = "grass" /\ ~alreadyQueued(taskQueue, c[1], c[2])
    /\ \E c \in DOMAIN map : map[c] # "tree"
    /\ tickCount > 0

\* C12: a successful buildAt with selected build type T takes cost(T) off the
\* wood in the same step, appends exactly one build task of type T at the end
\* of the queue, and changes neither the grid nor any agent.
C12_BuildAtEffect ==
    [][ (taskIdCounter' > taskIdCounter /\ AddedTask.type = "build")
          => /\ wood' = wood - BUILD_COSTS(selectedBuildType)
             /\ taskQueue' = Append(taskQueue, AddedTask)
             /\ AddedTask.buildType = selectedBuildType
             /\ AddedTask.id = taskIdCounter'
             /\ UNCHANGED << map, agents >> ]_vars

\* a build task has just been queued behind another task while agents were
\* at work, and its cost is off the wood
C12_Witness ==
    /\ Len(taskQueue) = 2
    /\ taskQueue[2].type = "build"
    /\ taskQueue[2].id = taskIdCounter
    /\ wood = CHOP_YIELD * chops - BUILD_COSTS(taskQueue[2].buildType)
    /\ \E i \in 1 .. Len(agents) : agents[i].currentTask # Null

\* the number of queued tasks at (x, y)
QueuedAt(queue, x, y) ==
    Cardinality({ i \in 1 .. Len(queue) : queue[i].x = x /\ queue[i].y = y })

\* C13: queueChopTask is idempotent.  In every state and for every tree
\* tile (x, y), queueChopTask(x, y) called twice leaves the queue and the
\* task counter that one call leaves, with exactly one queued task for
\* (x, y).
C13_QueueChopIdempotent ==
    \A c \in Cells(gridWidth, gridHeight) :
      map[c] = "tree" =>
        LET once == queueChopTaskOn(taskQueue, taskIdCounter, c[1], c[2])
            twice == queueChopTaskOn(once.queue, once.counter, c[1], c[2])
        IN  /\ twice = once
            /\ QueuedAt(twice.queue, c[1], c[2]) = 1

-----------------------------------------------------------------------------
(* Pausing *)

\* C14: while isRunning is false a tick changes nothing, and stopSimulation
\* and startSimulation change only the isRunning flag.  A step taken while
\* paused that is not an initialization leaves grid, agents, tickCount,
\* notifications and warm set alone, and the queue and the wood unless it
\* is a command adding a task; a step that flips isRunning and is not an
\* initialization changes nothing else.
C14_PauseFrame ==
    [][ \/ /\ ~isRunning =>
                /\ UNCHANGED << map, agents, tickCount, announcements,
                                warmTiles >>
                /\ taskIdCounter' = taskIdCounter
                      => UNCHANGED << taskQueue, wood >>
           /\ isRunning' # isRunning =>
                UNCHANGED << gridWidth, gridHeight, map, agents, taskQueue,
                             wood, tickCount, selectedBuildType,
                             announcements, warmTiles, taskIdCounter,
                             announcementIdCounter, workerIdCounter >>
        \/ initializeGame ]_vars

\* the simulation is paused while an agent is on its way to a task
C14_Witness ==
    /\ ~isRunning
    /\ tickCount > 0
    /\ taskQueue # << >>
    /\ \E i \in 1 .. Len(agents) :
         /\ agents[i].currentTask # Null
         /\ agents[i].targetX # Null
         /\ << agents[i].x, agents[i].y >>
              # << Val(agents[i].targetX), Val(agents[i].targetY) >>

-----------------------------------------------------------------------------
(* One chop, to completion.  The game has been initialized on a LiveWidth  *)
(* x LiveHeight grid (grass and trees only), the player has queued one     *)
(* chop task on a tree and started the simulation; from then on only the   *)
(* interval timer acts.  The timer calls tick every 500 ms while           *)
(* isRunning holds, which is the weak fairness of the executed tick.       *)

LiveWidth == 3
LiveHeight == 2
\* ticks 1 .. LiveTicks
LiveTicks == 6

Live ==
    [ types |-> {}, tasks |-> 1, start |-> 0, ticks |-> LiveTicks,
      period |-> 0 ]

InitLive ==
    /\ gridWidth = LiveWidth
    /\ gridHeight = LiveHeight
    /\ map \in generateMap(LiveWidth, LiveHeight)
    /\ \E agent \in createInitialAgent(map, LiveWidth, LiveHeight) :
         agents = << agent >>
    /\ \E c \in Cells(LiveWidth, LiveHeight) :
         /\ map[c] = "tree"
         /\ taskQueue = << Task(1, "chop", c[1], c[2], NoType) >>
    /\ wood = 0
    /\ tickCount = 0
    /\ isRunning = TRUE
    /\ selectedBuildType = NoType
    /\ announcements = << >>
    /\ warmTiles = {}
    /\ taskIdCounter = 1
    /\ announcementIdCounter = 0
    /\ workerIdCounter = 1
    /\ chops = 0
    /\ builtCost = 0
    /\ credited = << >>
    /\ lastTick = NoLog

\* the interval timer calls tick and the simulation is running: the tick
\* executes and advances tickCount.  Every step of [][tick(Live)]_vars that
\* advances tickCount is such a tick, and tick(Live) can execute in every
\* state with isRunning and tickCount < LiveTicks.
timerFires ==
    /\ isRunning
    /\ tickCount < LiveTicks
    /\ tickCount' = tickCount + 1

SpecLive == InitLive /\ [][tick(Live)]_vars /\ WF_tickCount(timerFires)

-----------------------------------------------------------------------------
(* Initialization *)

\* C16: initializeGame(width, height) resets the core state whatever the
\* state was: the grid is width x height of grass and tree tiles, there is
\* exactly one agent (agent-1, idle, no target, no task), standing on a grass
\* tile whenever the grid has one, the queue is empty, wood = 0,
\* tickCount = 0 and isRunning = false.  (Every initializeGame step resets
\* the task counter; that conjunct comes first to order the evaluation.)
C16_InitializeResets ==
    [][ (taskIdCounter' = 0 /\ initializeGame) =>
          /\ << gridWidth', gridHeight' >> \in Sizes
          /\ DOMAIN map' = Cells(gridWidth', gridHeight')
          /\ \A c \in DOMAIN map' : map'[c] \in { "grass", "tree" }
          /\ Len(agents') = 1
          /\ agents'[1].id = 1
          /\ agents'[1].state = "idle"
          /\ agents'[1].targetX = Null
          /\ agents'[1].targetY = Null
          /\ agents'[1].currentTask = Null
          /\ (\E c \in DOMAIN map' : map'[c] = "grass")
               => map'[<< agents'[1].x, agents'[1].y >>] = "grass"
          /\ taskQueue' = << >>
          /\ wood' = 0
          /\ tickCount' = 0
          /\ isRunning' = FALSE ]_vars

\* a game with a lit fireplace has been replaced by a new one: no tick has
\* run in this game, and only an earlier game can have left warm tiles
C16_Witness ==
    /\ tickCount = 0
    /\ ~isRunning
    /\ warmTiles # {}
    /\ Len(agents) = 1
    /\ \E c \in DOMAIN map : map[c] = "tree"
    /\ map[<< agents[1].x, agents[1].y >>] = "grass"

isTileWarm(x, y) == << x, y >> \in warmTiles

\* C17: after initializeGame the warm-tile set is reset too.  In a game in
\* which no tick has run yet (tickCount = 0), isTileWarm(x, y) is false for
\* every tile of the grid.
C17_InitializeResetsWarmth ==
    tickCount = 0 =>
        \A c \in Cells(gridWidth, gridHeight) : ~isTileWarm(c[1], c[2])

-----------------------------------------------------------------------------
(* A settled colony.  The game has run for HearthStart ticks on a          *)
(* HearthWidth x HearthHeight grid whose trees have all been felled, one   *)
(* per structure built; any arrangement of grass, walls, doors and         *)
(* fireplaces stands, the first agent is on a grass tile (on (0,0) where   *)
(* none is left), the notifications have expired and no worker has         *)
(* arrived yet.  The ticks that follow include two worker-spawn ticks.     *)

HearthWidth == 3
HearthHeight == 2
HearthStart == 99
\* ticks HearthStart + 1 .. HearthStart + HearthTicks
HearthTicks == 11
HearthTiles == { "grass", "wall", "door", "fireplace" }

Hearth ==
    [ types |-> {}, tasks |-> 0, start |-> HearthStart, ticks |-> HearthTicks,
      period |-> 0 ]

InitHearth ==
    /\ gridWidth = HearthWidth
    /\ gridHeight = HearthHeight
    /\ map \in [ Cells(HearthWidth, HearthHeight) -> HearthTiles ]
    /\ warmTiles = calculateWarmTiles(map, HearthWidth, HearthHeight)
    /\ \E a \in createInitialAgent(map, HearthWidth, HearthHeight) :
         agents = << [ a EXCEPT !.isWarm = << a.x, a.y >> \in warmTiles ] >>
    /\ taskQueue = << >>
    /\ chops = Cardinality({ c \in DOMAIN map : map[c] # "grass" })
    /\ builtCost =
         BUILD_COSTS("wall") * Cardinality({ c \in DOMAIN map : map[c] = "wall" })
         + BUILD_COSTS("door") * Cardinality({ c \in DOMAIN map : map[c] = "door" })
         + BUILD_COSTS("fireplace")
             * Cardinality({ c \in DOMAIN map : map[c] = "fireplace" })
    /\ wood = CHOP_YIELD * chops - builtCost
    /\ tickCount = HearthStart
    /\ isRunning = TRUE
    /\ selectedBuildType = NoType
    /\ announcements = << >>
    /\ taskIdCounter = 2 * chops
    /\ announcementIdCounter = chops
    /\ workerIdCounter = 1
    /\ credited = << >>
    /\ lastTick = NoLog

NextHearth ==
    \/ tick(Hearth)
    \/ initializeGame

SpecHearth == InitHearth /\ [][NextHearth]_vars

\* the cells within k steps of the set S along 4-connected paths that enter
\* no wall and no door
RECURSIVE WithinSteps(_, _)
WithinSteps(S, k) ==
    IF k = 0 THEN S
    ELSE WithinSteps(
           S \cup { n \in DOMAIN map :
                      /\ map[n] \notin { "wall", "door" }
                      /\ \E c \in S :
                           Abs(n[1] - c[1]) + Abs(n[2] - c[2]) = 1 },
           k - 1)

\* C18: after every executed tick the committed warm-tile set is exactly the
\* set of cells reachable from some fireplace of the committed grid by a
\* 4-connected path of at most WARMTH_RADIUS steps that enters no wall or
\* door tile.
C18_WarmSetExact ==
    tickCount > HearthStart =>
        warmTiles = WithinSteps({ c \in DOMAIN map : map[c] = "fireplace" },
                                WARMTH_RADIUS)

\* after a tick: a wall or door next to a fireplace keeps the open cell
\* behind it cold although it lies within the radius, and another cell at
\* exactly WARMTH_RADIUS steps is warm
C18_Witness ==
    /\ tickCount > HearthStart
    /\ \E f, b, c \in DOMAIN map :
         /\ map[f] = "fireplace"
         /\ map[b] \in { "wall", "door" }
         /\ map[c] = "grass"
         /\ Abs(b[1] - f[1]) + Abs(b[2] - f[2]) = 1
         /\ Abs(c[1] - b[1]) + Abs(c[2] - b[2]) = 1
         /\ Abs(c[1] - f[1]) + Abs(c[2] - f[2]) = 2
         /\ c \notin warmTiles
    /\ \E f, c \in DOMAIN map :
         /\ map[f] = "fireplace"
         /\ Abs(c[1] - f[1]) + Abs(c[2] - f[2]) = WARMTH_RADIUS
         /\ c \in warmTiles

\* C20: there are at least 1 and at most MAX_WORKERS agents in every state,
\* their ids are pairwise distinct, and between initializations agents are
\* only appended: every agent keeps its place in the list and its id.
C20_AgentsOnlyAppended ==
    /\ [] /\ Len(agents) >= 1
          /\ Len(agents) <= MAX_WORKERS
          /\ \A i, j \in 1 .. Len(agents) :
               agents[i].id = agents[j].id => i = j
    /\ [][ \/ /\ Len(agents') >= Len(agents)
              /\ \A i \in 1 .. Len(agents) : agents'[i].id = agents[i].id
           \/ initializeGame ]_vars

\* the second spawn tick has passed with two agents in the colony and a free
\* grass tile next to a fireplace
C20_Witness ==
    /\ tickCount = HearthStart + HearthTicks
    /\ Len(agents) = MAX_WORKERS
    /\ agents[1].id = 1
    /\ agents[2].id = 2
    /\ \E f \in findFireplaces(map, gridWidth, gridHeight) :
         findSpawnNearFireplace(map, f, agents, gridWidth, gridHeight) # {}

-----------------------------------------------------------------------------
(* A growing forest.  A fresh game on a GrowWidth x GrowHeight grid was    *)
(* started and left running with an empty queue for GrowStart ticks, in    *)
(* which nothing but tickCount changes; the next tick is a propagation     *)
(* tick.  Ten tiles let the coverage be exactly 0.70.                      *)

GrowWidth == 5
GrowHeight == 2
GrowStart == 99
\* ticks GrowStart + 1 .. GrowStart + GrowTicks
GrowTicks == 2

Grow ==
    [ types |-> {}, tasks |-> 0, start |-> GrowStart, ticks |-> GrowTicks,
      period |-> 0 ]

InitGrow ==
    /\ gridWidth = GrowWidth
    /\ gridHeight = GrowHeight
    /\ map \in generateMap(GrowWidth, GrowHeight)
    /\ \E agent \in createInitialAgent(map, GrowWidth, GrowHeight) :
         agents = << agent >>
    /\ taskQueue = << >>
    /\ wood = 0
    /\ tickCount = GrowStart
    /\ isRunning = TRUE
    /\ selectedBuildType = NoType
    /\ announcements = << >>
    /\ warmTiles = {}
    /\ taskIdCounter = 0
    /\ announcementIdCounter = 0
    /\ workerIdCounter = 1
    /\ chops = 0
    /\ builtCost = 0
    /\ credited = << >>
    /\ lastTick = NoLog

SpecGrow == InitGrow /\ [][tick(Grow)]_vars

\* C19: propagation at or above the maximum coverage adds no tree.  In a
\* propagation tick that starts with treeCount / (gridWidth x gridHeight)
\* >= 0.70, exactly 0.70 included, no tile becomes a tree and no growth is
\* announced.
C19_NoGrowthAtMaxCoverage ==
    [][ ( /\ tickCount' = tickCount + 1
          /\ tickCount' % PROPAGATION_INTERVAL = 0
          /\ 100 * Cardinality({ c \in DOMAIN map : map[c] = "tree" })
               >= MAX_TREE_COVERAGE_PCT * (gridWidth * gridHeight) )
        => /\ \A c \in DOMAIN map : map'[c] = "tree" => map[c] = "tree"
           /\ announcements' = announcements ]_vars

\* a propagation tick has run on a grid covered to exactly 0.70, with grass
\* left for a tree to spread to
C19_Witness ==
    /\ tickCount = GrowStart + 1
    /\ tickCount % PROPAGATION_INTERVAL = 0
    /\ 10 * Cardinality({ c \in DOMAIN map : map[c] = "tree" })
         = 7 * (gridWidth * gridHeight)
    /\ \E c \in DOMAIN map : map[c] = "grass"
    /\ announcements = << >>

-----------------------------------------------------------------------------
(* Queries *)

\* C21: isTaskQueued(x, y) is true iff a task in the queue has the
\* coordinates (x, y) or an agent has the target (x, y); it is false for a
\* tile whose task the latest tick completed, pruned or let a build agent
\* abandon, when no other task for the tile is queued or held.
C21_IsTaskQueued ==
    \A c \in CommandCoords :
      /\ isTaskQueued(c[1], c[2])
           <=> \/ QueuedAt(taskQueue, c[1], c[2]) > 0
               \/ \E i \in 1 .. Len(agents) :
                    /\ agents[i].targetX # Null
                    /\ agents[i].targetY # Null
                    /\ << Val(agents[i].targetX), Val(agents[i].targetY) >> = c
      /\ ( /\ \E d \in lastTick.departed : << d.task.x, d.task.y >> = c
           /\ \A k \in 1 .. Len(OutstandingTasks) :
                << OutstandingTasks[k].x, OutstandingTasks[k].y >> # c )
           => ~isTaskQueued(c[1], c[2])

\* the latest tick made an agent abandon a build task, whose tile now
\* answers false, while a task for another tile waits in the queue and
\* answers true
C21_Witness ==
    /\ \E d \in lastTick.departed :
         /\ d.how = "abandoned"
         /\ d.task.type = "build"
         /\ ~isTaskQueued(d.task.x, d.task.y)
    /\ \E k \in 1 .. Len(taskQueue) :
         isTaskQueued(taskQueue[k].x, taskQueue[k].y)

-----------------------------------------------------------------------------
(* An agent on its way.  On a PathWidth x PathHeight grid on which walls   *)
(* have been built, the agent stands anywhere and holds a build task for   *)
(* any other tile, grass or built over in the meantime; the simulation is  *)
(* running and from then on only the interval timer acts.                  *)

PathWidth == 3
PathHeight == 3
PathStart == 40
\* ticks PathStart + 1 .. PathStart + PathTicks
PathTicks == 8

Path ==
    [ types |-> {}, tasks |-> 0, start |-> PathStart, ticks |-> PathTicks,
      period |-> 0 ]

InitPath ==
    /\ gridWidth = PathWidth
    /\ gridHeight = PathHeight
    /\ map \in [ Cells(PathWidth, PathHeight) -> { "grass", "wall" } ]
    /\ builtCost = BUILD_COSTS("wall")
                     * Cardinality({ c \in DOMAIN map : map[c] = "wall" })
    /\ chops = Cardinality({ c \in DOMAIN map : map[c] = "wall" }) + 1
    /\ taskIdCounter = 2 * chops
    /\ \E s, t \in Cells(PathWidth, PathHeight) :
         /\ s # t
         /\ agents = << [ Agent(1, s[1], s[2]) EXCEPT
                            !.state = "moving",
                            !.targetX = Some(t[1]),
                            !.targetY = Some(t[2]),
                            !.currentTask =
                                Some(Task(taskIdCounter, "build", t[1], t[2],
                                          "wall")) ] >>
    /\ taskQueue = << >>
    /\ wood = CHOP_YIELD * chops - builtCost - BUILD_COSTS("wall")
    /\ tickCount = PathStart
    /\ isRunning = TRUE
    /\ selectedBuildType = "wall"
    /\ announcements = << >>
    /\ warmTiles = {}
    /\ announcementIdCounter = chops - 1
    /\ workerIdCounter = 1
    /\ credited = << >>
    /\ lastTick = NoLog

SpecPath == InitPath /\ [][tick(Path)]_vars

\* the cells from which the target is reached in at most k steps between
\* 4-adjacent cells of the grid, entering no wall other than the target
RECURSIVE ReachesIn(_, _, _)
ReachesIn(k, target, m) ==
    IF k = 0 THEN { target }
    ELSE LET near == ReachesIn(k - 1, target, m)
         IN  near \cup
             { c \in DOMAIN m :
                 \E n \in near :
                   /\ Abs(n[1] - c[1]) + Abs(n[2] - c[2]) = 1
                   /\ n = target \/ m[n] # "wall" }

\* the length of a shortest such path from c to the target, -1 if there is
\* none
StepsTo(c, target, m) ==
    LET n == Cardinality(DOMAIN m)
    IN  IF c \notin ReachesIn(n, target, m) THEN -1
        ELSE CHOOSE k \in 0 .. n :
               /\ c \in ReachesIn(k, target, m)
               /\ \A j \in 0 .. (k - 1) : c \notin ReachesIn(j, target, m)

\* the target and the position of the first agent, when it has a target and
\* is not on it
Walking ==
    /\ agents[1].targetX # Null
    /\ agents[1].targetY # Null
    /\ << agents[1].x, agents[1].y >>
         # << Val(agents[1].targetX), Val(agents[1].targetY) >>
WalkFrom == << agents[1].x, agents[1].y >>
WalkTo == << Val(agents[1].targetX), Val(agents[1].targetY) >>
WalkStep ==
    findPath(WalkFrom[1], WalkFrom[2], WalkTo[1], WalkTo[2], map,
             gridWidth, gridHeight)

\* the neighbour of c that a shortest path to the target enters first when
\* the neighbours are tried up, down, left, right (Null: no path)
FirstStepUpDownLeftRight(c, target, m) ==
    LET d == StepsTo(c, target, m)
        onShortest(n) ==
            /\ n \in DOMAIN m
            /\ n = target \/ m[n] # "wall"
            /\ StepsTo(n, target, m) = d - 1
        up == << c[1], c[2] - 1 >>
        down == << c[1], c[2] + 1 >>
        left == << c[1] - 1, c[2] >>
        right == << c[1] + 1, c[2] >>
    IN  IF d = -1 THEN Null
        ELSE IF onShortest(up) THEN up
        ELSE IF onShortest(down) THEN down
        ELSE IF onShortest(left) THEN left
        ELSE right

\* C22: findPath is deterministic: for a grid, a start and a target it
\* returns the first step of the shortest path that a BFS expanding the
\* neighbours in the order up, down, left, right discovers first.
C22_FindPathDeterministic ==
    Walking => WalkStep = FirstStepUpDownLeftRight(WalkFrom, WalkTo, map)

\* two shortest paths leave the agent's cell, one of them downwards and none
\* upwards, and findPath has taken the agent along the one going down
C22_Witness ==
    /\ Walking
    /\ tickCount > PathStart
    /\ LET d == StepsTo(WalkFrom, WalkTo, map)
           goes(n) == /\ n \in DOMAIN map
                      /\ n = WalkTo \/ map[n] # "wall"
                      /\ StepsTo(n, WalkTo, map) = d - 1
       IN  /\ d >= 2
           /\ ~goes(<< WalkFrom[1], WalkFrom[2] - 1 >>)
           /\ goes(<< WalkFrom[1], WalkFrom[2] + 1 >>)
           /\ goes(<< WalkFrom[1] + 1, WalkFrom[2] >>)
           /\ WalkStep = << WalkFrom[1], WalkFrom[2] + 1 >>

C27_DetourIsWalked ==
    [][ LET d == StepsTo(WalkFrom, WalkTo, map)
        IN  ( Walking /\ d >= 1 /\ tickCount' = tickCount + 1 )
            => /\ agents'[1].targetX = agents[1].targetX
               /\ agents'[1].targetY = agents[1].targetY
               /\ agents'[1].currentTask = agents[1].currentTask
               /\ agents'[1].state = "moving"
               /\ taskQueue' = taskQueue
               /\ wood' = wood
               /\ StepsTo(<< agents'[1].x, agents'[1].y >>, WalkTo, map')
                    = d - 1 ]_vars

\* the agent has built on its target six or more ticks after it set out:
\* it walked five or more steps, which on this grid only a detour takes
C27_Witness ==
    /\ tickCount >= PathStart + 6
    /\ agents[1].targetX = Null
    /\ \E d \in lastTick.departed :
         /\ d.how = "built"
         /\ << d.task.x, d.task.y >> = << agents[1].x, agents[1].y >>

-----------------------------------------------------------------------------
(* The assignment scan *)

\* the agent scans the queue in this state's next tick, on the map as it is
Scanning ==
    /\ isRunning
    /\ Len(agents) = 1
    /\ agents[1].targetX = Null
    /\ Len(taskQueue) > 0
    /\ (tickCount + 1) % PROPAGATION_INTERVAL # 0

\* the queue entries a scan can assign: a chop task on a tree, a build task
\* on grass
ValidEntries ==
    { i \in 1 .. Len(taskQueue) :
        \/ taskQueue[i].type = "chop"
             /\ TypeAt(map, taskQueue[i].x, taskQueue[i].y) = "tree"
        \/ taskQueue[i].type = "build"
             /\ TypeAt(map, taskQueue[i].x, taskQueue[i].y) = "grass" }

\* Manhattan distance from the agent to the i-th queue entry
ScanDistance(i) ==
    Abs(taskQueue[i].x - agents[1].x) + Abs(taskQueue[i].y - agents[1].y)

\* the queue without its b-th entry
QueueWithout(b) ==
    [ j \in 1 .. Len(taskQueue) - 1 |->
        IF j < b THEN taskQueue[j] ELSE taskQueue[j + 1] ]

C24_InvalidTasksPruned ==
    [][ ( Scanning /\ tickCount' = tickCount + 1 )
        => \A i \in (1 .. Len(taskQueue)) \ ValidEntries :
             \A j \in 1 .. Len(taskQueue') : taskQueue'[j] # taskQueue[i] ]_vars

-----------------------------------------------------------------------------
(* Abandonment *)

\* C25: in a tick in which an agent holds a task, is not on its target and
\* findPath returns null, the agent keeps its position, its target and
\* currentTask become null and its state idle; a chop task is appended
\* unchanged to the end of the queue, a build task is not queued again and
\* wood grows by exactly the cost of its buildType; the tick is counted and
\* the simulation keeps running.
C25_Abandonment ==
    [][ ( /\ tickCount' = tickCount + 1
          /\ Len(agents) = 1
          /\ (tickCount + 1) % PROPAGATION_INTERVAL # 0
          /\ Walking
          /\ agents[1].currentTask # Null
          /\ WalkStep = Null )
        => LET task == Val(agents[1].currentTask) IN
           /\ << agents'[1].x, agents'[1].y >> = WalkFrom
           /\ agents'[1].targetX = Null
           /\ agents'[1].targetY = Null
           /\ agents'[1].currentTask = Null
           /\ agents'[1].state = "idle"
           /\ task.type = "chop" => /\ taskQueue' = Append(taskQueue, task)
                                    /\ wood' = wood
           /\ task.type = "build"
                => /\ taskQueue' = taskQueue
                   /\ wood' = wood + BUILD_COSTS(task.buildType)
           /\ isRunning' ]_vars

\* in the latest tick the agent gave up a build task behind a wall: it is
\* idle, without target, the task's tile is still grass and out of reach
C25_Witness ==
    /\ Len(agents) = 1
    /\ agents[1].state = "idle"
    /\ agents[1].targetX = Null
    /\ agents[1].currentTask = Null
    /\ \E d \in lastTick.departed :
         /\ d.how = "abandoned"
         /\ d.task.type = "build"
         /\ TypeAt(map, d.task.x, d.task.y) = "grass"
         /\ StepsTo(<< agents[1].x, agents[1].y >>,
                    << d.task.x, d.task.y >>, map) = -1

-----------------------------------------------------------------------------
(* Work on the target cell *)

\* agent i has a target and stands on it, and no other agent has that target
AloneAtTarget(i) ==
    /\ agents[i].targetX # Null
    /\ agents[i].targetY # Null
    /\ agents[i].x = Val(agents[i].targetX)
    /\ agents[i].y = Val(agents[i].targetY)
    /\ \A j \in 1 .. Len(agents) :
         (agents[j].targetX = agents[i].targetX
          /\ agents[j].targetY = agents[i].targetY) => j = i

\* C29: an agent that starts a tick on its target cell, the tile being a
\* tree, chops it whatever the type of its current task: the tile becomes
\* grass, the agent's state chopping, its target and currentTask null, its
\* position is unchanged, and wood grows by 10 (by exactly 10 in a tick with
\* that agent only).
C29_ChopAtTarget ==
    [][ tickCount' = tickCount + 1
        => \A i \in 1 .. Len(agents) :
             ( AloneAtTarget(i) /\ TypeAt(map, agents[i].x, agents[i].y) = "tree" )
             => /\ TypeAt(map', agents[i].x, agents[i].y) = "grass"
                /\ agents'[i].state = "chopping"
                /\ agents'[i].targetX = Null
                /\ agents'[i].targetY = Null
                /\ agents'[i].currentTask = Null
                /\ agents'[i].x = agents[i].x
                /\ agents'[i].y = agents[i].y
                /\ wood' >= wood + CHOP_YIELD
                /\ Len(agents') = 1 => wood' = wood + CHOP_YIELD ]_vars

\* an agent that held a build task has chopped the tree that had grown on
\* the task's tile
C29_Witness ==
    \E i \in 1 .. Len(agents) :
        /\ agents[i].state = "chopping"
        /\ agents[i].currentTask = Null
        /\ TypeAt(map, agents[i].x, agents[i].y) = "grass"
        /\ \E d \in lastTick.departed :
             /\ d.task.type = "build"
             /\ d.how = "dropped"
             /\ << d.task.x, d.task.y >> = << agents[i].x, agents[i].y >>

\* agent i holds a build task for cell c and stands on c
BuilderOn(i, c) ==
    /\ agents[i].currentTask # Null
    /\ Val(agents[i].currentTask).type = "build"
    /\ << Val(agents[i].currentTask).x, Val(agents[i].currentTask).y >> = c
    /\ << agents[i].x, agents[i].y >> = c

\* C30: a tile changes from grass to a built type only in a tick in which an
\* agent holding a build task for that tile stands on it; the tile becomes
\* exactly the task's buildType, a 'Built <type>' notification is emitted,
\* the agent's state becomes building and its target and currentTask null,
\* and the completion does not change wood (wood is the same after a tick
\* with that agent only); an agent holding a chop task never builds.
C30_BuildAtTarget ==
    [][ /\ \A c \in DOMAIN map \cap DOMAIN map' :
             ( map[c] = "grass" /\ map'[c] \in BUILD_OPTIONS )
             => /\ tickCount' = tickCount + 1
                /\ \E i \in 1 .. Len(agents) :
                     /\ BuilderOn(i, c)
                     /\ map'[c] = Val(agents[i].currentTask).buildType
                     /\ agents'[i].state = "building"
                     /\ agents'[i].targetX = Null
                     /\ agents'[i].targetY = Null
                     /\ agents'[i].currentTask = Null
                     /\ \E k \in 1 .. Len(announcements') :
                          /\ announcements'[k].id > announcementIdCounter
                          /\ announcements'[k].message = "Built " \o map'[c]
                /\ Len(agents') = 1 => wood' = wood
        /\ \A i \in 1 .. Len(agents) :
             ( /\ tickCount' = tickCount + 1
               /\ agents[i].currentTask # Null
               /\ Val(agents[i].currentTask).type = "chop" )
             => agents'[i].state # "building" ]_vars

\* in the latest tick an agent completed the build of its task on the tile it
\* stands on, and the notification is the newest one
C30_Witness ==
    \E i \in 1 .. Len(agents) :
        /\ agents[i].state = "building"
        /\ agents[i].currentTask = Null
        /\ \E d \in lastTick.departed :
             /\ d.how = "built"
             /\ << d.task.x, d.task.y >> = << agents[i].x, agents[i].y >>
             /\ TypeAt(map, d.task.x, d.task.y) = d.task.buildType
             /\ announcements # << >>
             /\ announcements[Len(announcements)].message
                  = "Built " \o d.task.buildType

-----------------------------------------------------------------------------
(* Starvation: a running game with two queued chop tasks, one of them      *)
(* behind a wall.  The grid is a single row: a tree at cell r, the agent   *)
(* at cell a, a wall on the last cell but one and a tree on the last cell. *)
(* The wall was paid for with the wood of an earlier chop.  tickCount is   *)
(* kept modulo StarvePeriod, so that a game running forever is a cycle of  *)
(* the state graph.                                                        *)

StarveWidth == 6
StarveHeight == 1
StarvePeriod == PROPAGATION_INTERVAL

Starve ==
    [ types |-> {}, tasks |-> 0, start |-> 0, ticks |-> StarvePeriod,
      period |-> StarvePeriod ]

InitStarve ==
    /\ gridWidth = StarveWidth
    /\ gridHeight = StarveHeight
    /\ \E r, a \in 0 .. StarveWidth - 3 :
         /\ map = [ c \in Cells(StarveWidth, StarveHeight) |->
                      IF c[1] = StarveWidth - 2 THEN "wall"
                      ELSE IF c[1] = StarveWidth - 1 \/ c[1] = r THEN "tree"
                      ELSE "grass" ]
         /\ agents = << Agent(1, a, 0) >>
         /\ taskQueue \in
              { << Task(3, "chop", r, 0, NoType),
                   Task(4, "chop", StarveWidth - 1, 0, NoType) >>,
                << Task(3, "chop", StarveWidth - 1, 0, NoType),
                   Task(4, "chop", r, 0, NoType) >> }
    /\ wood = CHOP_YIELD - BUILD_COSTS("wall")
    /\ tickCount = 0
    /\ isRunning = TRUE
    /\ selectedBuildType = "wall"
    /\ announcements = << >>
    /\ warmTiles = {}
    /\ taskIdCounter = 4
    /\ announcementIdCounter = 1
    /\ workerIdCounter = 1
    /\ chops = 1
    /\ builtCost = BUILD_COSTS("wall")
    /\ credited = << >>
    /\ lastTick = NoLog

\* the interval timer calls tick while the simulation is running: the tick
\* executes and advances tickCount.  tick(Starve) can execute in every state
\* of this specification.
timerKeepsFiring ==
    /\ isRunning
    /\ tickCount' = (tickCount + 1) % StarvePeriod

SpecStarve == InitStarve /\ [][tick(Starve)]_vars /\ WF_tickCount(timerKeepsFiring)

\* a chop task is queued for the tree at c and an agent can walk to c
ReachableChopQueued(c) ==
    /\ TypeAt(map, c[1], c[2]) = "tree"
    /\ \E i \in 1 .. Len(taskQueue) :
         /\ taskQueue[i].type = "chop"
         /\ << taskQueue[i].x, taskQueue[i].y >> = c
    /\ \E k \in 1 .. Len(agents) :
         StepsTo(<< agents[k].x, agents[k].y >>, c, map) >= 0

\* C28: with the simulation running and no further commands, every queued
\* chop task whose tree an agent can reach is eventually executed (its tree
\* is chopped), also when the queue holds a nearer chop task that cannot be
\* reached.
C28_NoStarvation ==
    \A c \in Cells(StarveWidth, StarveHeight) :
        ReachableChopQueued(c) ~> (TypeAt(map, c[1], c[2]) # "tree")

-----------------------------------------------------------------------------
(* Work and arrival *)

\* C31: an agent performs its work action (chop or build) in the tick in
\* which it moves onto its target cell, not in a later tick: a tick that
\* brings an agent onto its target leaves it in state chopping or building.
C31_WorkInArrivalTick ==
    [][ ( /\ tickCount' = tickCount + 1
          /\ Len(agents) = 1
          /\ Walking
          /\ << agents'[1].x, agents'[1].y >> = WalkTo )
        => agents'[1].state \in { "chopping", "building" } ]_vars

\* C32: an agent's state is moving iff it has a target: an agent whose
\* target was cleared by a tick is not left in state moving, and an agent in
\* state idle, chopping or building has no target.
C32_MovingIffTarget ==
    \A i \in 1 .. Len(agents) :
        (agents[i].state = "moving") <=> (agents[i].targetX # Null)

-----------------------------------------------------------------------------
(* Worker spawning: a running game on a single row of grass, trees and     *)
(* fireplaces, one tick before a spawn tick, with an empty queue or one or *)
(* two queued chop tasks.  Every fireplace was paid for with the wood of   *)
(* one chop.                                                               *)

SpawnWidth == 5
SpawnHeight == 1
SpawnStart == 9
\* ticks SpawnStart + 1 .. SpawnStart + SpawnTicks
SpawnTicks == 11
SpawnTiles == { "grass", "tree", "fireplace" }

Spawn ==
    [ types |-> {}, tasks |-> 0, start |-> SpawnStart, ticks |-> SpawnTicks,
      period |-> 0 ]

InitSpawn ==
    /\ gridWidth = SpawnWidth
    /\ gridHeight = SpawnHeight
    /\ map \in [ Cells(SpawnWidth, SpawnHeight) -> SpawnTiles ]
    /\ warmTiles = calculateWarmTiles(map, SpawnWidth, SpawnHeight)
    /\ \E a \in createInitialAgent(map, SpawnWidth, SpawnHeight) :
         agents = << [ a EXCEPT !.isWarm = << a.x, a.y >> \in warmTiles ] >>
    /\ chops = Cardinality({ c \in DOMAIN map : map[c] = "fireplace" })
    /\ LET trees == { t \in DOMAIN map : map[t] = "tree" }
       IN  taskQueue \in { << >> }
             \cup { << Task(2 * chops + 1, "chop", c[1], c[2], NoType) >> :
                      c \in trees }
             \cup { q \in { << Task(2 * chops + 1, "chop", c[1], c[2], NoType),
                                Task(2 * chops + 2, "chop", d[1], d[2], NoType) >> :
                               c \in trees, d \in trees } :
                      << q[1].x, q[1].y >> # << q[2].x, q[2].y >> }
    /\ builtCost = BUILD_COSTS("fireplace") * chops
    /\ wood = CHOP_YIELD * chops - builtCost
    /\ tickCount = SpawnStart
    /\ isRunning = TRUE
    /\ selectedBuildType = NoType
    /\ announcements = << >>
    /\ taskIdCounter = 2 * chops + Len(taskQueue)
    /\ announcementIdCounter = chops
    /\ workerIdCounter = 1
    /\ credited = << >>
    /\ lastTick = NoLog

SpecSpawn == InitSpawn /\ [][tick(Spawn)]_vars

\* C33: a new agent appears only in a tick whose number is a multiple of 10
\* and only while fewer than MAX_WORKERS agents exist; at most one is added
\* per tick; it stands on an in-bounds grass tile that no existing agent
\* occupied, within 2 tiles in x and in y of some fireplace and not on the
\* fireplace; it is created idle, without target and task, and ends the tick
\* either so or holding a task its first scan assigned to it.  Without a
\* fireplace no agent is spawned.
C33_SpawnRules ==
    [][ ( tickCount' = tickCount + 1 /\ Len(agents') > Len(agents) )
        => LET a == agents'[Len(agents')]
               pos == << a.x, a.y >>
           IN  /\ tickCount' % 10 = 0
               /\ Len(agents) < MAX_WORKERS
               /\ Len(agents') = Len(agents) + 1
               /\ pos \in DOMAIN map
               /\ 0 <= a.x /\ a.x < gridWidth /\ 0 <= a.y /\ a.y < gridHeight
               /\ map[pos] = "grass"
               /\ \A i \in 1 .. Len(agents) :
                    << agents[i].x, agents[i].y >> # pos
               /\ \E f \in DOMAIN map :
                    /\ map[f] = "fireplace"
                    /\ f # pos
                    /\ Abs(a.x - f[1]) <= 2
                    /\ Abs(a.y - f[2]) <= 2
               /\ \/ /\ a.state = "idle"
                     /\ a.targetX = Null
                     /\ a.targetY = Null
                     /\ a.currentTask = Null
                  \/ /\ a.state = "moving"
                     /\ a.currentTask # Null
                     /\ \E e \in lastTick'.assigned :
                          e.task = Val(a.currentTask) ]_vars

\* a worker has arrived two tiles from a fireplace while a free grass tile
\* lay farther away, out of reach of every fireplace
C33_Witness ==
    /\ tickCount = SpawnStart + 1
    /\ Len(agents) = 2
    /\ agents[2].state = "idle"
    /\ \E f \in DOMAIN map :
         /\ map[f] = "fireplace"
         /\ Abs(agents[2].x - f[1]) = 2
    /\ \E c \in DOMAIN map :
         /\ map[c] = "grass"
         /\ \A i \in 1 .. Len(agents) : << agents[i].x, agents[i].y >> # c
         /\ \A f \in DOMAIN map :
              map[f] = "fireplace" => Abs(c[1] - f[1]) > 2

-----------------------------------------------------------------------------
(* Tree growth *)

\* the tiles a step changes
ChangedTiles == { c \in DOMAIN map : map'[c] # map[c] }

\* C34: tiles turn into trees only in a tick whose number is a multiple of
\* 100; every such tile was grass and lies within 3 tiles in x and in y of a
\* tile that was a tree before; no other tile changes; and the count that is
\* announced is the number of tiles that changed from grass to tree.
C34_GrowthRules ==
    [][ tickCount' = tickCount + 1
        => /\ ChangedTiles # {} => tickCount' % 100 = 0
           /\ \A c \in ChangedTiles :
                /\ map[c] = "grass"
                /\ map'[c] = "tree"
                /\ \E t \in DOMAIN map :
                     /\ map[t] = "tree"
                     /\ Abs(c[1] - t[1]) <= 3
                     /\ Abs(c[2] - t[2]) <= 3
           /\ IF ChangedTiles # {}
              THEN /\ Len(announcements') = Len(announcements) + 1
                   /\ announcements'[Len(announcements')].message
                        = treesGrewMessage(Cardinality(ChangedTiles))
              ELSE announcements' = announcements ]_vars

\* tick 100 has run: one tree has grown, three tiles from the only tree
\* there was, and a grass tile four tiles from that tree is still grass
C34_Witness ==
    /\ tickCount = PROPAGATION_INTERVAL
    /\ announcements # << >>
    /\ announcements[Len(announcements)].message = treesGrewMessage(1)
    /\ \E t, c, g \in DOMAIN map :
         /\ map[t] = "tree"
         /\ map[c] = "tree"
         /\ Abs(c[1] - t[1]) = 3
         /\ map[g] = "grass"
         /\ Abs(g[1] - t[1]) = 4
         /\ Cardinality({ u \in DOMAIN map : map[u] = "tree" }) = 2

\* C35: a propagation step that starts with tree coverage below 0.70 never
\* ends with coverage above 0.70.
C35_CoverageCapped ==
    [][ ( /\ tickCount' = tickCount + 1
          /\ 100 * Cardinality({ c \in DOMAIN map : map[c] = "tree" })
               < 70 * Cardinality(DOMAIN map) )
        => 100 * Cardinality({ c \in DOMAIN map' : map'[c] = "tree" })
             <= 70 * Cardinality(DOMAIN map') ]_vars

-----------------------------------------------------------------------------
(* Several agents in one tick *)

\* the index of the task a scan of queue q from (x, y) assigns on map m: a
\* valid entry at minimum Manhattan distance, the earliest of those; 0 when
\* q holds no valid entry
FirstChoice(q, x, y, m) ==
    LET valid == { i \in 1 .. Len(q) :
                     \/ q[i].type = "chop" /\ TypeAt(m, q[i].x, q[i].y) = "tree"
                     \/ q[i].type = "build" /\ TypeAt(m, q[i].x, q[i].y) = "grass" }
        dist(i) == Abs(q[i].x - x) + Abs(q[i].y - y)
        best == { b \in valid :
                    \A i \in valid :
                        dist(b) < dist(i) \/ (dist(b) = dist(i) /\ b <= i) }
    IN  IF valid = {} THEN 0 ELSE CHOOSE b \in best : TRUE

\* q without its b-th entry
Without(q, b) ==
    [ j \in 1 .. Len(q) - 1 |-> IF j < b THEN q[j] ELSE q[j + 1] ]

\* two agents scan the queue in this step: the first agent has no target,
\* and the second has none or is spawned by the tick
TwoAgentsScan ==
    /\ tickCount' = tickCount + 1
    /\ Len(agents') = 2
    /\ agents[1].targetX = Null
    /\ Len(agents) = 2 => agents[2].targetX = Null
    /\ Len(taskQueue) > 0

\* C36: within one tick the agent earlier in the agent list chooses first
\* and the later agent chooses from the queue as the earlier one left it;
\* the two never receive the same task, and with a single valid task the
\* earlier agent gets it and the later one stays idle.
C36_ListOrderDecides ==
    [][ TwoAgentsScan
        => LET b1 == FirstChoice(taskQueue, agents'[1].x, agents'[1].y, map')
               q1 == IF b1 = 0 THEN taskQueue ELSE Without(taskQueue, b1)
               b2 == FirstChoice(q1, agents'[2].x, agents'[2].y, map')
           IN  /\ b1 # 0 => agents'[1].currentTask = Some(taskQueue[b1])
               /\ b1 = 0 => /\ agents'[1].currentTask = Null
                            /\ agents'[2].currentTask = Null
               /\ b2 # 0 => /\ agents'[2].currentTask = Some(q1[b2])
                            /\ taskQueue' = Without(q1, b2)
               /\ b2 = 0 => /\ agents'[2].currentTask = Null
                            /\ agents'[2].targetX = Null
                            /\ agents'[2].state = "idle"
               /\ ( agents'[1].currentTask # Null
                    /\ agents'[2].currentTask # Null )
                  => agents'[1].currentTask # agents'[2].currentTask ]_vars

\* in the latest tick two agents were handed a task each, and the second
\* agent holds the task that is farther from it: the nearer one had been
\* taken by the first agent
C36_Witness ==
    /\ Len(agents) = 2
    /\ agents[1].currentTask # Null
    /\ agents[2].currentTask # Null
    /\ Cardinality(lastTick.assigned) = 2
    /\ Abs(Val(agents[1].targetX) - agents[2].x)
         < Abs(Val(agents[2].targetX) - agents[2].x)

\* the tiles a step turns from tree into grass
FelledTiles == { c \in DOMAIN map : map[c] = "tree" /\ map'[c] = "grass" }

-----------------------------------------------------------------------------
(* Task identity *)

\* C38: every task has a single holder: the ids of the tasks in the queue
\* and of the tasks held by agents are pairwise distinct, so a task is in
\* the queue once, or held by one agent, or gone; a chop task pushed back on
\* abandonment is no longer held by the agent that abandoned it.
C38_SingleHolder ==
    \A i, j \in 1 .. Len(OutstandingTasks) :
        OutstandingTasks[i].id = OutstandingTasks[j].id => i = j

\* a chop task was pushed back behind a task created after it, and no agent
\* holds a task
C38_Witness ==
    /\ \A k \in 1 .. Len(agents) : agents[k].currentTask = Null
    /\ \E i, j \in 1 .. Len(taskQueue) :
         /\ i < j
         /\ taskQueue[i].id > taskQueue[j].id
         /\ taskQueue[j].type = "chop"

-----------------------------------------------------------------------------
(* Warmth flags *)

\* C39: after every executed tick each agent's isWarm flag is true iff the
\* position the tick committed for the agent belongs to the warm-tile set the
\* same tick committed, which is the set of cells within WARMTH_RADIUS open
\* steps of a fireplace of the committed grid.
C39_WarmFlagMatchesTile ==
    [][ tickCount' = tickCount + 1
        => /\ \A i \in 1 .. Len(agents') :
                agents'[i].isWarm
                    <=> << agents'[i].x, agents'[i].y >> \in warmTiles'
           /\ warmTiles' = WithinSteps({ c \in DOMAIN map :
                                            map[c] = "fireplace" },
                                       WARMTH_RADIUS)' ]_vars

\* the latest tick moved an agent from a warm tile onto a cold one, on its
\* way to a target farther from the fireplace
C39_Witness ==
    /\ tickCount > SpawnStart
    /\ \E i \in 1 .. Len(agents) :
         /\ ~agents[i].isWarm
         /\ agents[i].state = "moving"
         /\ agents[i].targetX # Null
         /\ << agents[i].x, agents[i].y >> \notin warmTiles
         /\ \E c \in warmTiles :
              /\ c[2] = agents[i].y
              /\ Abs(c[1] - agents[i].x) = 1
              /\ Abs(Val(agents[i].targetX) - c[1])
                   > Abs(Val(agents[i].targetX) - agents[i].x)

====
